---- MODULE Spec2Model ----
(***************************************************************************)
(* The query deduplicator of fleet-gitops (dedupe_queries.py) as a state   *)
(* machine: one invocation scans the query files of lib/, groups the       *)
(* entries by name, decides winner / losers / different per name group,    *)
(* prints the summary and, unless --dry-run, applies the removals file by  *)
(* file.  A second invocation on the corpus left by the first is part of   *)
(* the model.                                                              *)
(*                                                                         *)
(* Text is a sequence of one-character strings.  Paths are sequences of    *)
(* path segments relative to LIB_DIR.  A similarity ratio 2.0*M/T is kept  *)
(* as the pair <<2*M, T>> and a threshold as a percentage, so that         *)
(* ratio >= threshold is 100*2*M >= threshold*T.                           *)
(*                                                                         *)
(* The sorter (sort_queries.py) is a second state machine on variables of  *)
(* its own: it takes one source record at a time, detects its platform     *)
(* and its category and writes it below lib/.  Its text is kept as         *)
(* strings; None is the empty sequence and an optional string s is <<s>>.  *)
(***************************************************************************)
EXTENDS Integers, Sequences, FiniteSets, TLC

VARIABLES fs, args, run, pc, query_files, scan_i, name_to_queries,
          todo, files_to_modify, counts, decisions, output, apply_i,
          ops, start, prev,
          record, spc, lib_subdir, yaml_platform, category,
          fx_fs, fx_start, fx_args, fx_pc, fx_files, fx_i, fx_counts, fx_output,
          rd_input, rd_i, rd_pc, rd_locals, rd_result, rd_yielded, rd_warned

\* the state of the deduplicator (dedupe_queries.py)
dvars == <<fs, args, run, pc, query_files, scan_i, name_to_queries,
           todo, files_to_modify, counts, decisions, output, apply_i,
           ops, start, prev>>

\* the state of the sorter (sort_queries.py)
svars == <<record, spc, lib_subdir, yaml_platform, category>>

\* the state of an issue fixer (fix_query_issues.py and the tool of that name)
fvars == <<fx_fs, fx_start, fx_args, fx_pc, fx_files, fx_i, fx_counts, fx_output>>

\* the state of a parser of sort_queries.py
rvars == <<rd_input, rd_i, rd_pc, rd_locals, rd_result, rd_yielded, rd_warned>>

vars == <<dvars, svars, fvars, rvars>>

\* no sorter record is being classified
SortIdle ==
    /\ record = <<>>
    /\ spc = "idle"
    /\ lib_subdir = ""
    /\ yaml_platform = <<>>
    /\ category = ""

\* no fixer is running
FixIdle ==
    /\ fx_fs = <<>>
    /\ fx_start = <<>>
    /\ fx_args = <<>>
    /\ fx_pc = "idle"
    /\ fx_files = <<>>
    /\ fx_i = 0
    /\ fx_counts = <<>>
    /\ fx_output = <<>>

\* no parser is running
ReadIdle ==
    /\ rd_input = <<>>
    /\ rd_i = 0
    /\ rd_pc = "idle"
    /\ rd_locals = <<>>
    /\ rd_result = <<>>
    /\ rd_yielded = <<>>
    /\ rd_warned = <<>>

-----------------------------------------------------------------------------
(* Bounds of the checked corpora.                                          *)

\* most entries in the whole corpus
MaxRecords == 3

\* most characters of the two bodies together in the two-entry corpora of
\* SpecPair
MaxLen == 4

-----------------------------------------------------------------------------
(* Text: str.lower, str.strip, re.sub(r'\s+', ' ', .), str.rstrip(';').     *)
(* The characters in use are ASCII letters, digits, punctuation, space,    *)
(* tab and newline.                                                        *)

IsSpace(c) == c \in {" ", "\t", "\n"}

UpperCase == "ABCDEFGHIJKLMNOPQRSTUVWXYZ"

LowerCase == "abcdefghijklmnopqrstuvwxyz"

\* the lower-case letter of every upper-case letter
LowerOf ==
    [c \in {SubSeq(UpperCase, i, i) : i \in 1..Len(UpperCase)} |->
        LET i == CHOOSE k \in 1..Len(UpperCase) : SubSeq(UpperCase, k, k) = c
        IN  SubSeq(LowerCase, i, i)]

\* str.lower() of one character
LowerChar(c) == IF c \in DOMAIN LowerOf THEN LowerOf[c] ELSE c

\* the characters of a string, one by one
Chars(str) == [i \in 1..Len(str) |-> SubSeq(str, i, i)]

Lower(s) == [i \in 1..Len(s) |-> LowerChar(s[i])]

RECURSIVE LStrip(_)
LStrip(s) == IF s # <<>> /\ IsSpace(Head(s)) THEN LStrip(Tail(s)) ELSE s

RECURSIVE RStripSpace(_)
RStripSpace(s) ==
    IF s # <<>> /\ IsSpace(s[Len(s)]) THEN RStripSpace(SubSeq(s, 1, Len(s) - 1)) ELSE s

Strip(s) == RStripSpace(LStrip(s))

\* re.sub(r'\s+', ' ', s): every maximal run of whitespace becomes one space
RECURSIVE CollapseSpace(_)
CollapseSpace(s) ==
    IF s = <<>> THEN <<>>
    ELSE IF IsSpace(Head(s))
         THEN <<" ">> \o CollapseSpace(LStrip(s))
         ELSE <<Head(s)>> \o CollapseSpace(Tail(s))

\* s.rstrip(';'): every trailing semicolon is removed
RECURSIVE RStripSemi(_)
RStripSemi(s) ==
    IF s # <<>> /\ s[Len(s)] = ";" THEN RStripSemi(SubSeq(s, 1, Len(s) - 1)) ELSE s

\* variant: the case of the letters is kept
normalize_sql_cased(sql) ==
    IF sql = <<>> THEN <<>>
    ELSE RStripSemi(CollapseSpace(Strip(sql)))

normalize_sql(sql) ==
    IF sql = <<>> THEN <<>>
    ELSE RStripSemi(CollapseSpace(Strip(Lower(sql))))

-----------------------------------------------------------------------------
(* difflib.SequenceMatcher(None, a, b).ratio() for sequences shorter than  *)
(* 200 elements (no junk, no popular elements).  Positions are 0-based and *)
(* ranges half-open, as in difflib.                                        *)

\* length of the common run that starts at a[i], b[j] inside the window
RECURSIVE RunLen(_, _, _, _, _, _)
RunLen(a, b, i, j, ahi, bhi) ==
    IF i < ahi /\ j < bhi /\ a[i + 1] = b[j + 1]
    THEN 1 + RunLen(a, b, i + 1, j + 1, ahi, bhi)
    ELSE 0

\* the longest matching block of a[alo:ahi] and b[blo:bhi]; of the longest
\* ones the one starting earliest in a, and of those the earliest in b
find_longest_match(a, b, alo, ahi, blo, bhi) ==
    LET cands == (alo..(ahi - 1)) \X (blo..(bhi - 1))
        len == [c \in cands |-> RunLen(a, b, c[1], c[2], ahi, bhi)]
        hits == {c \in cands : len[c] > 0}
    IN  IF hits = {} THEN [i |-> alo, j |-> blo, size |-> 0]
        ELSE LET size == CHOOSE k \in {len[c] : c \in hits} :
                            \A c \in hits : len[c] <= k
                 i == CHOOSE x \in {c[1] : c \in {h \in hits : len[h] = size}} :
                         \A h \in hits : len[h] = size => x <= h[1]
                 j == CHOOSE y \in {c[2] : c \in {h \in hits : len[h] = size /\ h[1] = i}} :
                         \A h \in hits : (len[h] = size /\ h[1] = i) => y <= h[2]
             IN  [i |-> i, j |-> j, size |-> size]

\* variant: the longest matching block alone
MatchesLongest(a, b, alo, ahi, blo, bhi) ==
    find_longest_match(a, b, alo, ahi, blo, bhi).size

\* sum of the sizes of get_matching_blocks()
RECURSIVE Matches(_, _, _, _, _, _)

\* the longest block m and the blocks to its left and to its right
MatchesAround(a, b, alo, ahi, blo, bhi, m) ==
    IF m.size = 0 THEN 0
    ELSE m.size
         + (IF alo < m.i /\ blo < m.j
            THEN Matches(a, b, alo, m.i, blo, m.j) ELSE 0)
         + (IF m.i + m.size < ahi /\ m.j + m.size < bhi
            THEN Matches(a, b, m.i + m.size, ahi, m.j + m.size, bhi) ELSE 0)

Matches(a, b, alo, ahi, blo, bhi) ==
    MatchesAround(a, b, alo, ahi, blo, bhi,
                  find_longest_match(a, b, alo, ahi, blo, bhi))

\* ratio() = 2.0 * matches / (len(a) + len(b)), 1.0 for two empty sequences
Ratio(a, b) ==
    IF Len(a) + Len(b) = 0 THEN <<1, 1>>
    ELSE <<2 * Matches(a, b, 0, Len(a), 0, Len(b)), Len(a) + Len(b)>>

sql_similarity(sql1, sql2) ==
    LET norm1 == normalize_sql(sql1)
        norm2 == normalize_sql(sql2)
    IN  IF norm1 = <<>> \/ norm2 = <<>> THEN <<0, 1>> ELSE Ratio(norm1, norm2)

\* similarity >= args.similarity, the threshold given in percent
AtLeast(sim, threshold) == 100 * sim[1] >= threshold * sim[2]

-----------------------------------------------------------------------------
(* Paths below LIB_DIR and their order.  sorted() compares the path        *)
(* strings; for the segments used here that is the segment-wise            *)
(* lexicographic order, with the segments ordered as in StrOrder.          *)

StrOrder == <<"Check SSH Config", "X", "Y", "a.yml", "all", "b.yml",
              "compliance", "custom", "detection", "fleet-docs",
              "fleet-internal", "general", "imessage-detection", "laptop",
              "macos", "misc", "osquery-packs", "policy", "q.yml", "queries",
              "server">>

StrRank(s) == CHOOSE i \in 1..Len(StrOrder) : StrOrder[i] = s

StrLess(s, t) == StrRank(s) < StrRank(t)

RECURSIVE PathLess(_, _)
PathLess(p, q) ==
    IF q = <<>> THEN FALSE
    ELSE IF p = <<>> THEN TRUE
    ELSE IF Head(p) = Head(q) THEN PathLess(Tail(p), Tail(q))
    ELSE StrLess(Head(p), Head(q))

PathAll == <<"all", "laptop", "queries", "osquery-packs", "detection", "q.yml">>
PathMacA == <<"macos", "laptop", "queries", "fleet-docs", "general", "a.yml">>
PathMacB == <<"macos", "laptop", "queries", "fleet-docs", "general", "b.yml">>

Paths == {PathAll, PathMacA, PathMacB}

\* the sequence that holds the elements of S in ascending order
RECURSIVE SortedPaths(_)
SortedPaths(S) ==
    IF S = {} THEN <<>>
    ELSE LET least == CHOOSE p \in S : \A q \in S \ {p} : PathLess(p, q)
         IN  <<least>> \o SortedPaths(S \ {least})

\* every .yml file below a queries directory, sorted
find_query_files(files) == SortedPaths(DOMAIN files)

-----------------------------------------------------------------------------
(* Scores.                                                                 *)

SOURCE_PRECEDENCE ==
    [s \in {"fleet-docs", "fleet-internal", "palantir-configuration",
            "chainguard-defense-kit", "osquery-packs", "mitre-attck",
            "osquery-configuration", "palantir", "imessage-detection"} |->
        CASE s = "fleet-docs" -> 1
          [] s = "fleet-internal" -> 2
          [] s = "palantir-configuration" -> 3
          [] s = "chainguard-defense-kit" -> 4
          [] s = "osquery-packs" -> 5
          [] s = "mitre-attck" -> 6
          [] s = "osquery-configuration" -> 7
          [] s = "palantir" -> 8
          [] s = "imessage-detection" -> 9]

CATEGORY_PRECEDENCE ==
    [c \in {"general", "compliance", "detection", "incident_response",
            "incident-response", "informational", "endpoints", "performance",
            "policy"} |->
        CASE c = "general" -> 1
          [] c = "compliance" -> 2
          [] c = "detection" -> 3
          [] c = "incident_response" -> 4
          [] c = "incident-response" -> 4
          [] c = "informational" -> 5
          [] c = "endpoints" -> 6
          [] c = "performance" -> 7
          [] c = "policy" -> 8]

\* dict.get(key, 100) of the two tables
UnknownRank == 100

SourceWeight == 100

get_source_and_category(filepath) ==
    [source   |-> IF Len(filepath) > 3 THEN filepath[4] ELSE "unknown",
     category |-> IF Len(filepath) > 4 THEN filepath[5] ELSE "unknown"]

get_platform_device(filepath) ==
    [platform    |-> IF Len(filepath) > 0 THEN filepath[1] ELSE "unknown",
     device_type |-> IF Len(filepath) > 1 THEN filepath[2] ELSE "unknown"]

\* variant: the bit is added for a concrete platform
score_query_concrete(filepath) ==
    LET sc == get_source_and_category(filepath)
        pd == get_platform_device(filepath)
        source_score == IF sc.source \in DOMAIN SOURCE_PRECEDENCE
                        THEN SOURCE_PRECEDENCE[sc.source] ELSE UnknownRank
        category_score == IF sc.category \in DOMAIN CATEGORY_PRECEDENCE
                          THEN CATEGORY_PRECEDENCE[sc.category] ELSE UnknownRank
        platform_score == IF pd.platform # "all" THEN 1 ELSE 0
    IN  (source_score * SourceWeight) + category_score + platform_score

score_query(filepath) ==
    LET sc == get_source_and_category(filepath)
        pd == get_platform_device(filepath)
        source_score == IF sc.source \in DOMAIN SOURCE_PRECEDENCE
                        THEN SOURCE_PRECEDENCE[sc.source] ELSE UnknownRank
        category_score == IF sc.category \in DOMAIN CATEGORY_PRECEDENCE
                          THEN CATEGORY_PRECEDENCE[sc.category] ELSE UnknownRank
        platform_score == IF pd.platform # "all" THEN 0 ELSE 1
    IN  (source_score * SourceWeight) + category_score + platform_score

-----------------------------------------------------------------------------
(* The corpus.  fs maps every existing query file to the list its YAML     *)
(* holds; an entry is a record with the keys it has.                       *)

Names == {"X", "Y"}

\* bodies of the entries named X: the second is the first up to case and
\* terminator, the third is two thirds similar to both
Bodies == {<<"a">>, <<"A", ";">>, <<"a", "b">>}

Entries == {[name |-> "X", query |-> b] : b \in Bodies}
           \cup {[name |-> "Y", query |-> <<"a">>]}

\* --similarity, in percent
DefaultSimilarity == 85

Thresholds == {50, DefaultSimilarity}

PathSeq == <<PathAll, PathMacA, PathMacB>>

\* the corpora of n entries: the entries in order, cut into the files
Corpora(n) ==
    LET Places == {pl \in [1..n -> 1..Len(PathSeq)] :
                      \A i \in 1..(n - 1) : pl[i] <= pl[i + 1]}
        Recs == {r \in [1..n -> Entries] : n = 0 \/ r[1].name = "X"}
        Part(r, pl, k) ==
            LET idx == {i \in 1..n : pl[i] = k}
                lo == CHOOSE i \in idx : \A j \in idx : i <= j
            IN  SubSeq(r, lo, lo + Cardinality(idx) - 1)
    IN  {[p \in {PathSeq[pl[i]] : i \in 1..n} |->
             Part(r, pl, CHOOSE k \in 1..Len(PathSeq) : PathSeq[k] = p)] :
         r \in Recs, pl \in Places}

AllCorpora == UNION {Corpora(n) : n \in 0..MaxRecords}

-----------------------------------------------------------------------------
(* Helpers of main().                                                      *)

\* query.get("query", "")
SqlOf(query) == IF "query" \in DOMAIN query THEN query.query ELSE <<>>

\* lines 168-177: the occurrences one file adds, by name
RECURSIVE Collect(_, _, _, _)
Collect(n2q, filepath, queries, i) ==
    IF i >= Len(queries) THEN n2q
    ELSE LET query == queries[i + 1]
             occ == [filepath |-> filepath, index |-> i, query |-> query,
                     score |-> score_query(filepath), sql |-> SqlOf(query)]
             next == IF "name" \in DOMAIN query
                     THEN IF query.name \in DOMAIN n2q
                          THEN [n2q EXCEPT ![query.name] = Append(@, occ)]
                          ELSE [n \in DOMAIN n2q \cup {query.name} |->
                                   IF n = query.name THEN <<occ>> ELSE n2q[n]]
                     ELSE n2q
         IN  Collect(next, filepath, queries, i + 1)

\* sorted(duplicates.items()): the names with more than one occurrence
RECURSIVE SortedNames(_)
SortedNames(S) ==
    IF S = {} THEN <<>>
    ELSE LET least == CHOOSE n \in S : \A m \in S \ {n} : StrLess(n, m)
         IN  <<least>> \o SortedNames(S \ {least})

Duplicates(n2q) == {n \in DOMAIN n2q : Len(n2q[n]) > 1}

\* variant: x goes before the elements of equal score
InsertUnstable(sorted, x) ==
    LET k == Cardinality({i \in 1..Len(sorted) : sorted[i].score < x.score})
    IN  SubSeq(sorted, 1, k) \o <<x>> \o SubSeq(sorted, k + 1, Len(sorted))

\* x goes after every element whose score is not larger
InsertByScore(sorted, x) ==
    LET k == Cardinality({i \in 1..Len(sorted) : sorted[i].score <= x.score})
    IN  SubSeq(sorted, 1, k) \o <<x>> \o SubSeq(sorted, k + 1, Len(sorted))

\* occurrences.sort(key=lambda x: x["score"]): ascending and stable
RECURSIVE SortByScore(_)
SortByScore(occs) ==
    IF occs = <<>> THEN <<>>
    ELSE InsertByScore(SortByScore(SubSeq(occs, 1, Len(occs) - 1)), occs[Len(occs)])

\* variant: the bodies are compared as they are, not normalized
IsLoserRaw(winner, occ, threshold) ==
    AtLeast(Ratio(winner.sql, occ.sql), threshold)

\* variant: only an occurrence in the winner's file can lose
IsLoserSameFile(winner, occ, threshold) ==
    /\ occ.filepath = winner.filepath
    /\ AtLeast(sql_similarity(winner.sql, occ.sql), threshold)

\* line 202: similarity >= args.similarity
IsLoser(winner, occ, threshold) ==
    AtLeast(sql_similarity(winner.sql, occ.sql), threshold)

\* variant: the winner is compared like every other occurrence
DecideAll(occurrences, threshold) ==
    LET sorted == SortByScore(occurrences)
        winner == sorted[1]
        Lose(o) == IsLoser(winner, o, threshold)
    IN  [winner |-> winner, losers |-> SelectSeq(sorted, Lose), different |-> <<>>]

\* lines 193-205: winner, losers and different of one name group
Decide(occurrences, threshold) ==
    LET sorted == SortByScore(occurrences)
        winner == sorted[1]
        rest == Tail(sorted)
        Lose(o) == IsLoser(winner, o, threshold)
        Differ(o) == ~IsLoser(winner, o, threshold)
        diff == SelectSeq(rest, Differ)
    IN  [winner |-> winner,
         losers |-> SelectSeq(rest, Lose),
         different |-> [i \in 1..Len(diff) |->
                          [occ |-> diff[i],
                           similarity |-> sql_similarity(winner.sql, diff[i].sql)]]]

\* variant: the index replaces the list of the file instead of joining it
ScheduleAssign(ftm, filepath, index) ==
    IF \E k \in 1..Len(ftm) : ftm[k].filepath = filepath
    THEN [k \in 1..Len(ftm) |->
             IF ftm[k].filepath = filepath
             THEN [ftm[k] EXCEPT !.indices = <<index>>] ELSE ftm[k]]
    ELSE Append(ftm, [filepath |-> filepath, indices |-> <<index>>])

\* files_to_modify[filepath].append(index) on the insertion-ordered dict
Schedule(ftm, filepath, index) ==
    IF \E k \in 1..Len(ftm) : ftm[k].filepath = filepath
    THEN [k \in 1..Len(ftm) |->
             IF ftm[k].filepath = filepath
             THEN [ftm[k] EXCEPT !.indices = Append(@, index)] ELSE ftm[k]]
    ELSE Append(ftm, [filepath |-> filepath, indices |-> <<index>>])

\* variant: only the first loser of a group is scheduled
ScheduleHead(ftm, losers) ==
    IF losers = <<>> THEN ftm
    ELSE Schedule(ftm, Head(losers).filepath, Head(losers).index)

RECURSIVE ScheduleAll(_, _)
ScheduleAll(ftm, losers) ==
    IF losers = <<>> THEN ftm
    ELSE ScheduleAll(Schedule(ftm, Head(losers).filepath, Head(losers).index),
                     Tail(losers))

\* variant: ascending, as without reverse=True
RECURSIVE SortedAsc(_)
SortedAsc(indices) ==
    IF indices = <<>> THEN <<>>
    ELSE LET rest == SortedAsc(Tail(indices))
             k == Cardinality({i \in 1..Len(rest) : rest[i] <= Head(indices)})
         IN  SubSeq(rest, 1, k) \o <<Head(indices)>> \o SubSeq(rest, k + 1, Len(rest))

\* sorted(indices_to_remove, reverse=True)
RECURSIVE SortedDesc(_)
SortedDesc(indices) ==
    IF indices = <<>> THEN <<>>
    ELSE LET rest == SortedDesc(Tail(indices))
             k == Cardinality({i \in 1..Len(rest) : rest[i] >= Head(indices)})
         IN  SubSeq(rest, 1, k) \o <<Head(indices)>> \o SubSeq(rest, k + 1, Len(rest))

\* variant: the last entry is removed, as by queries.pop()
DelLast(queries, index) == SubSeq(queries, 1, Len(queries) - 1)

\* del queries[index]
Del(queries, index) ==
    SubSeq(queries, 1, index) \o SubSeq(queries, index + 2, Len(queries))

\* lines 251-253
RECURSIVE RemoveIndices(_, _)
RemoveIndices(queries, desc) ==
    IF desc = <<>> THEN queries
    ELSE RemoveIndices(IF Head(desc) < Len(queries) THEN Del(queries, Head(desc))
                       ELSE queries,
                       Tail(desc))

\* os.remove(filepath)
Remove(files, filepath) == [p \in DOMAIN files \ {filepath} |-> files[p]]

\* save_queries(filepath, queries)
Save(files, filepath, queries) == [files EXCEPT ![filepath] = queries]

-----------------------------------------------------------------------------
(* One invocation of main().                                               *)

NoCounts == [kept |-> 0, removed |-> 0, different |-> 0,
             files_modified |-> 0, files_deleted |-> 0]

\* the state at line 157, for the corpus files and the arguments a
Enter(files, a, r, p) ==
    /\ fs = files
    /\ args = a
    /\ run = r
    /\ pc = "scan"
    /\ query_files = find_query_files(files)
    /\ scan_i = 0
    /\ name_to_queries = <<>>
    /\ todo = <<>>
    /\ files_to_modify = <<>>
    /\ counts = NoCounts
    /\ decisions = <<>>
    /\ output = <<>>
    /\ apply_i = 0
    /\ ops = <<>>
    /\ start = files
    /\ prev = p
    /\ record = <<>>
    /\ spc = "idle"
    /\ lib_subdir = ""
    /\ yaml_platform = <<>>
    /\ category = ""
    /\ FixIdle
    /\ ReadIdle

\* no deduplicator is running
DedupeIdle ==
    /\ fs = <<>>
    /\ args = <<>>
    /\ run = 0
    /\ pc = "idle"
    /\ query_files = <<>>
    /\ scan_i = 0
    /\ name_to_queries = <<>>
    /\ todo = <<>>
    /\ files_to_modify = <<>>
    /\ counts = NoCounts
    /\ decisions = <<>>
    /\ output = <<>>
    /\ apply_i = 0
    /\ ops = <<>>
    /\ start = <<>>
    /\ prev = <<>>

Init ==
    \E files \in AllCorpora, d \in BOOLEAN, th \in Thresholds :
        Enter(files, [dry_run |-> d, similarity |-> th], 1, <<>>)

\* lines 164-177, one file
Scan ==
    /\ pc = "scan"
    /\ scan_i < Len(query_files)
    /\ LET filepath == query_files[scan_i + 1]
       IN  name_to_queries' = Collect(name_to_queries, filepath, fs[filepath], 0)
    /\ scan_i' = scan_i + 1
    /\ UNCHANGED <<fs, args, run, pc, query_files, todo, files_to_modify, counts,
                   decisions, output, apply_i, ops, start, prev, svars, fvars, rvars>>

\* variant: the duplicates are taken inside the scan loop
FindDuplicatesEarly ==
    /\ pc = "scan"
    /\ scan_i >= 1
    /\ todo' = SortedNames(Duplicates(name_to_queries))
    /\ pc' = "dedupe"
    /\ UNCHANGED <<fs, args, run, query_files, scan_i, name_to_queries,
                   files_to_modify, counts, decisions, output, apply_i, ops,
                   start, prev, svars, fvars, rvars>>

\* lines 180-189, after the last file
FindDuplicates ==
    /\ pc = "scan"
    /\ scan_i = Len(query_files)
    /\ todo' = SortedNames(Duplicates(name_to_queries))
    /\ pc' = "dedupe"
    /\ UNCHANGED <<fs, args, run, query_files, scan_i, name_to_queries,
                   files_to_modify, counts, decisions, output, apply_i, ops,
                   start, prev, svars, fvars, rvars>>

\* lines 207-222: what --dry-run prints for one name group
GroupReport(name, d) ==
    <<[line |-> "KEEP", name |-> name, filepath |-> d.winner.filepath,
       index |-> d.winner.index, similarity |-> <<1, 1>>]>>
    \o [i \in 1..Len(d.losers) |->
          [line |-> "DELETE", name |-> name, filepath |-> d.losers[i].filepath,
           index |-> d.losers[i].index,
           similarity |-> sql_similarity(d.winner.sql, d.losers[i].sql)]]
    \o [i \in 1..Len(d.different) |->
          [line |-> "DIFFERENT SQL", name |-> name,
           filepath |-> d.different[i].occ.filepath,
           index |-> d.different[i].occ.index,
           similarity |-> d.different[i].similarity]]

\* lines 191-230, one name group
Dedupe ==
    /\ pc = "dedupe"
    /\ todo # <<>>
    /\ LET name == Head(todo)
           d == Decide(name_to_queries[name], args.similarity)
       IN  /\ decisions' = [n \in DOMAIN decisions \cup {name} |->
                               IF n = name THEN d ELSE decisions[n]]
           /\ output' = IF args.dry_run THEN output \o GroupReport(name, d)
                        ELSE output
           /\ files_to_modify' = ScheduleAll(files_to_modify, d.losers)
           /\ counts' = [counts EXCEPT !.kept = @ + 1,
                                       !.removed = @ + Len(d.losers),
                                       !.different = @ + Len(d.different)]
    /\ todo' = Tail(todo)
    /\ UNCHANGED <<fs, args, run, pc, query_files, scan_i, name_to_queries,
                   apply_i, ops, start, prev, svars, fvars, rvars>>

\* variant: --dry-run does not return before the apply phase
SummaryNoReturn ==
    /\ pc = "dedupe"
    /\ todo = <<>>
    /\ output' = Append(output,
                        [line |-> "Summary",
                         names |-> Cardinality(Duplicates(name_to_queries)),
                         kept |-> counts.kept, removed |-> counts.removed,
                         different |-> counts.different])
    /\ pc' = "apply"
    /\ UNCHANGED <<fs, args, run, query_files, scan_i, name_to_queries, todo,
                   files_to_modify, counts, decisions, apply_i, ops, start, prev, svars, fvars, rvars>>

\* lines 232-241, after the last name group
Summary ==
    /\ pc = "dedupe"
    /\ todo = <<>>
    /\ output' = Append(output,
                        [line |-> "Summary",
                         names |-> Cardinality(Duplicates(name_to_queries)),
                         kept |-> counts.kept, removed |-> counts.removed,
                         different |-> counts.different])
    /\ pc' = IF args.dry_run THEN "done" ELSE "apply"
    /\ UNCHANGED <<fs, args, run, query_files, scan_i, name_to_queries, todo,
                   files_to_modify, counts, decisions, apply_i, ops, start, prev, svars, fvars, rvars>>

\* variant: the file is written whatever is left
StoreAlways(files, filepath, queries) ==
    [op |-> "save", files |-> Save(files, filepath, queries)]

\* lines 255-266: an emptied file is deleted, any other one is written
Store(files, filepath, queries) ==
    IF queries = <<>>
    THEN [op |-> "remove", files |-> Remove(files, filepath)]
    ELSE [op |-> "save", files |-> Save(files, filepath, queries)]

\* lines 247-266, one file of files_to_modify
Apply ==
    /\ pc = "apply"
    /\ apply_i < Len(files_to_modify)
    /\ LET item == files_to_modify[apply_i + 1]
           queries == RemoveIndices(fs[item.filepath], SortedDesc(item.indices))
           st == Store(fs, item.filepath, queries)
       IN  /\ fs' = st.files
           /\ ops' = Append(ops, [op |-> st.op, filepath |-> item.filepath,
                                  queries |-> queries])
           /\ counts' = IF st.op = "remove"
                        THEN [counts EXCEPT !.files_deleted = @ + 1]
                        ELSE [counts EXCEPT !.files_modified = @ + 1]
    /\ apply_i' = apply_i + 1
    /\ UNCHANGED <<args, run, pc, query_files, scan_i, name_to_queries, todo,
                   files_to_modify, decisions, output, start, prev, svars, fvars, rvars>>

\* lines 268-270, after the last file
Finish ==
    /\ pc = "apply"
    /\ apply_i = Len(files_to_modify)
    /\ output' = Append(output,
                        [line |-> "Total", files_modified |-> counts.files_modified,
                         files_deleted |-> counts.files_deleted,
                         removed |-> counts.removed])
    /\ pc' = "done"
    /\ UNCHANGED <<fs, args, run, query_files, scan_i, name_to_queries, todo,
                   files_to_modify, counts, decisions, apply_i, ops, start, prev, svars, fvars, rvars>>

\* the finished invocation, as the next one remembers it
Snapshot ==
    [dry_run |-> args.dry_run, start |-> start, final |-> fs,
     decisions |-> decisions, files_to_modify |-> files_to_modify,
     counts |-> counts, ops |-> ops]

\* the program is invoked once more, with the same --similarity
Rerun ==
    /\ pc = "done"
    /\ run = 1
    /\ \E d \in BOOLEAN :
          /\ args' = [args EXCEPT !.dry_run = d]
          /\ run' = 2
          /\ pc' = "scan"
          /\ query_files' = find_query_files(fs)
          /\ scan_i' = 0
          /\ name_to_queries' = <<>>
          /\ todo' = <<>>
          /\ files_to_modify' = <<>>
          /\ counts' = NoCounts
          /\ decisions' = <<>>
          /\ output' = <<>>
          /\ apply_i' = 0
          /\ ops' = <<>>
          /\ start' = fs
          /\ prev' = <<Snapshot>>
          /\ UNCHANGED <<fs, svars, fvars, rvars>>

Next ==
    \/ Scan
    \/ FindDuplicates
    \/ Dedupe
    \/ Summary
    \/ Apply
    \/ Finish
    \/ Rerun

Spec == Init /\ [][Next]_vars

-----------------------------------------------------------------------------
(* Corpora of two entries named X, one in the file of each source, with    *)
(* every pair of bodies of at most MaxLen characters together.             *)

PairChars == {"a", "A", " ", ";"}

RECURSIVE Strings(_)
Strings(n) ==
    IF n = 0 THEN {<<>>}
    ELSE LET shorter == Strings(n - 1)
         IN  shorter \cup {Append(s, c) : s \in {x \in shorter : Len(x) = n - 1},
                                          c \in PairChars}

PairCorpus(better, worse) ==
    [p \in {PathAll, PathMacA} |->
        IF p = PathMacA THEN <<[name |-> "X", query |-> better]>>
        ELSE <<[name |-> "X", query |-> worse]>>]

InitPair ==
    \E better \in Strings(MaxLen) :
       \E worse \in Strings(MaxLen - Len(better)) :
          Enter(PairCorpus(better, worse),
                [dry_run |-> FALSE, similarity |-> DefaultSimilarity], 1, <<>>)

SpecPair == InitPair /\ [][Next]_vars

-----------------------------------------------------------------------------
(* Corpora of named cases: the three entries named "Check SSH Config" in   *)
(* the files of two sources, and two entries of one name with the bodies   *)
(* of PidBodies in files of known and unknown sources and categories.      *)

Platforms == {"all", "macos"}

SshName == "Check SSH Config"

SshBodies == <<"SELECT * FROM sshd_config", "select * from sshd_config;",
               "SELECT port FROM listeners">>

\* the three files in the order sorted() finds them
SshPaths(platform) ==
    <<<<platform, "laptop", "queries", "fleet-docs", "compliance", "a.yml">>,
      <<platform, "laptop", "queries", "osquery-packs", "detection", "q.yml">>,
      <<platform, "server", "queries", "fleet-docs", "compliance", "a.yml">>>>

SshCorpus(platform) ==
    LET paths == SshPaths(platform)
    IN  [p \in {paths[k] : k \in 1..3} |->
            LET k == CHOOSE j \in 1..3 : paths[j] = p
            IN  <<[name |-> SshName, query |-> Chars(SshBodies[k])]>>]

PidBodies == <<"SELECT pid FROM processes", "SELECT path FROM file">>

\* files of the first and of the last known source, of a source and a
\* category outside the tables, and a file directly below queries/
ScorePaths ==
    {<<pl, "laptop", "queries", sc[1], sc[2], "q.yml">> :
        pl \in Platforms,
        sc \in {<<"fleet-docs", "compliance">>, <<"osquery-packs", "detection">>,
                <<"imessage-detection", "policy">>, <<"custom", "misc">>}}
    \cup {<<"macos", "laptop", "queries", "q.yml">>}

PidCorpus(p, q) ==
    LET first == [name |-> "X", query |-> Chars(PidBodies[1])]
        second == [name |-> "X", query |-> Chars(PidBodies[2])]
    IN  [f \in {p, q} |->
            IF p = q THEN <<first, second>>
            ELSE IF f = p THEN <<first>> ELSE <<second>>]

\* a file of the first source in a category outside the table, below all,
\* and files of the second source in the first category
NeighbourPaths ==
    {<<"all", "laptop", "queries", "fleet-docs", "misc", "q.yml">>}
    \cup {<<pl, "laptop", "queries", "fleet-internal", "general", "q.yml">> :
             pl \in Platforms}

\* an entry of the given name and body, and an entry without a name
Named(name, body) == [name |-> name, query |-> Chars(body)]

Nameless(body) == [query |-> Chars(body)]

\* files with entries of two names, entries without a name and one entry
\* whose body differs from the winner's; the second corpus has files that
\* hold nothing but losers
MixedCorpora ==
    {[f \in {PathAll, PathMacA} |->
         IF f = PathMacA
         THEN <<Named("X", "a"), Nameless("a"), Named("Y", "a")>>
         ELSE <<Named("Y", "a"), Named("X", "A;"), Nameless("a"),
                Named("X", "ab"), Named("Y", "A;")>>],
     [f \in {PathAll, PathMacA, PathMacB} |->
         IF f = PathMacA THEN <<Named("X", "a"), Nameless("a"), Named("Y", "a")>>
         ELSE IF f = PathMacB THEN <<Named("Y", "a")>>
         ELSE <<Named("X", "A;"), Named("Y", "A;")>>]}

CaseCorpora ==
    {SshCorpus(pl) : pl \in Platforms}
    \cup {PidCorpus(p, q) : p \in ScorePaths, q \in {PathAll}}
    \cup {PidCorpus(p, p) : p \in ScorePaths}
    \cup {PidCorpus(p, q) : p \in NeighbourPaths, q \in NeighbourPaths}
    \cup MixedCorpora

InitCases ==
    \E files \in CaseCorpora, d \in BOOLEAN :
        Enter(files, [dry_run |-> d, similarity |-> DefaultSimilarity], 1, <<>>)

SpecCases == InitCases /\ [][Next]_vars

-----------------------------------------------------------------------------
(* The sorter's text: the str methods, os.path functions and regular       *)
(* expressions of sort_queries.py, on strings.                             *)

\* bool(x) of a string, a list or None
Truthy(x) == Len(x) > 0

Least(S) == CHOOSE x \in S : \A y \in S : x <= y

Greatest(S) == CHOOSE x \in S : \A y \in S : x >= y

CharAt(str, i) == SubSeq(str, i, i)

\* the positions of str that hold the character c
Positions(str, c) == {i \in 1..Len(str) : CharAt(str, i) = c}

RECURSIVE str_lower(_)
str_lower(str) ==
    IF Len(str) = 0 THEN ""
    ELSE LowerChar(CharAt(str, 1)) \o str_lower(SubSeq(str, 2, Len(str)))

\* str.upper() of one character
UpperChar(c) ==
    LET at == Positions(LowerCase, c)
    IN  IF at = {} THEN c ELSE CharAt(UpperCase, Least(at))

IsLetter(c) == Positions(LowerCase, c) # {} \/ Positions(UpperCase, c) # {}

Digits == "0123456789"

IsDigit(c) == Positions(Digits, c) # {}

\* \w of the regular expressions
IsWordChar(c) == IsLetter(c) \/ IsDigit(c) \/ c = "_"

\* str.title(): a letter after a non-letter is upper case, any other lower
RECURSIVE TitleFrom(_, _)
TitleFrom(str, i) ==
    IF i > Len(str) THEN ""
    ELSE (IF i = 1 \/ ~IsLetter(CharAt(str, i - 1))
          THEN UpperChar(CharAt(str, i))
          ELSE LowerChar(CharAt(str, i)))
         \o TitleFrom(str, i + 1)

str_title(str) == TitleFrom(str, 1)

\* str.strip()
str_strip(str) ==
    LET solid == {i \in 1..Len(str) : ~IsSpace(CharAt(str, i))}
    IN  IF solid = {} THEN "" ELSE SubSeq(str, Least(solid), Greatest(solid))

\* str.replace(old, new) for one-character old and new
RECURSIVE str_replace(_, _, _)
str_replace(str, old, new) ==
    IF Len(str) = 0 THEN ""
    ELSE (IF CharAt(str, 1) = old THEN new ELSE CharAt(str, 1))
         \o str_replace(SubSeq(str, 2, Len(str)), old, new)

\* str.split(sep) for a one-character sep
RECURSIVE str_split(_, _)
str_split(str, sep) ==
    LET at == Positions(str, sep)
    IN  IF at = {} THEN <<str>>
        ELSE <<SubSeq(str, 1, Least(at) - 1)>>
             \o str_split(SubSeq(str, Least(at) + 1, Len(str)), sep)

\* str.split(): the maximal runs of characters that are not whitespace
RECURSIVE str_words(_)
str_words(str) ==
    LET solid == {i \in 1..Len(str) : ~IsSpace(CharAt(str, i))}
    IN  IF solid = {} THEN <<>>
        ELSE LET lo == Least(solid)
                 gaps == {i \in lo..Len(str) : IsSpace(CharAt(str, i))}
                 hi == IF gaps = {} THEN Len(str) ELSE Least(gaps) - 1
             IN  <<SubSeq(str, lo, hi)>> \o str_words(SubSeq(str, hi + 1, Len(str)))

\* kw in text
Contains(text, kw) ==
    \E i \in 1..(Len(text) - Len(kw) + 1) : SubSeq(text, i, i + Len(kw) - 1) = kw

\* re.search(rf"\b{table}\b", text) for a table name made of word characters
HasWord(text, table) ==
    \E i \in 1..(Len(text) - Len(table) + 1) :
       /\ SubSeq(text, i, i + Len(table) - 1) = table
       /\ i = 1 \/ ~IsWordChar(CharAt(text, i - 1))
       /\ i + Len(table) > Len(text) \/ ~IsWordChar(CharAt(text, i + Len(table)))

\* str.rfind of "/" and of ".", 0 when there is none
LastOf(p, c) == IF Positions(p, c) = {} THEN 0 ELSE Greatest(Positions(p, c))

\* os.path.splitext(p)[0]: the extension starts at the last dot of the last
\* component, unless only dots precede it there
splitext_root(p) ==
    LET sepIndex == LastOf(p, "/")
        dotIndex == LastOf(p, ".")
    IN  IF /\ dotIndex > sepIndex
           /\ \E k \in (sepIndex + 1)..(dotIndex - 1) : CharAt(p, k) # "."
        THEN SubSeq(p, 1, dotIndex - 1)
        ELSE p

\* os.path.basename(p)
basename(p) == SubSeq(p, LastOf(p, "/") + 1, Len(p))

\* os.path.join(a, b) for a relative b
path_join(a, b) == a \o "/" \o b

\* re.sub(r"^\d+-", "", stem)
strip_number(stem) ==
    LET other == {i \in 1..Len(stem) : ~IsDigit(CharAt(stem, i))}
    IN  IF other # {} /\ Least(other) > 1 /\ CharAt(stem, Least(other)) = "-"
        THEN SubSeq(stem, Least(other) + 1, Len(stem))
        ELSE stem

\* dict.get(key, default)
Get(dict, key, default) == IF key \in DOMAIN dict THEN dict[key] ELSE default

derive_query_name(filename) ==
    str_title(str_replace(str_replace(strip_number(splitext_root(filename)),
                                      "-", " "),
                          "_", " "))

-----------------------------------------------------------------------------
(* Platform detection.  A result is the pair (lib_subdir, yaml_platform);  *)
(* a strategy gives <<>> when it has no result and <<result>> otherwise.   *)

Bucket(lib_dir, plat) == [lib_dir |-> lib_dir, plat |-> plat]

PLATFORM_MAP ==
    [a \in {"darwin", "macos", "osx", "mac", "linux", "centos", "ubuntu", "rhel",
            "debian", "windows", "win", "posix", "chrome", "freebsd"} |->
        CASE a \in {"darwin", "macos", "osx", "mac"} -> Bucket("macos", <<"darwin">>)
          [] a \in {"linux", "centos", "ubuntu", "rhel", "debian"} ->
                Bucket("linux", <<"linux">>)
          [] a \in {"windows", "win"} -> Bucket("windows", <<"windows">>)
          [] a = "posix" -> Bucket("all", <<>>)
          [] a = "chrome" -> Bucket("all", <<"chrome">>)
          [] a = "freebsd" -> Bucket("all", <<"freebsd">>)]

\* the platforms in the order of the dict
PLATFORMS == <<"macos", "linux", "windows">>

PLATFORM_TABLES ==
    [p \in {"macos", "linux", "windows"} |->
        CASE p = "macos" ->
               <<"launchd", "alf", "app_schemes", "apps", "crashes", "disk_events",
                 "event_taps", "gatekeeper", "homebrew", "ioreg", "keychain",
                 "mdfind", "nvram", "plist", "safari", "sip_config", "xprotect",
                 "authorization", "account_policy_data", "es_process_events",
                 "unified_log">>
          [] p = "linux" ->
               <<"systemd", "apt_sources", "deb_packages", "rpm_packages",
                 "yum_sources", "iptables", "selinux", "sysctl", "memory_map",
                 "kernel_modules", "kernel_info", "md_devices", "lxd", "shadow">>
          [] p = "windows" ->
               <<"registry", "windows_events", "windows_security", "bitlocker",
                 "chocolatey", "ie_extensions", "pipes", "scheduled_tasks",
                 "services", "shared_resources", "wmi", "powershell",
                 "logon_sessions", "ntfs", "prefetch", "userassist", "autoexec",
                 "drivers", "programs">>]

\* variant: an unrecognised string leaves no display label
_resolve_platform_string_bare(platform_str) ==
    LET normalized == str_lower(str_strip(platform_str))
    IN  IF normalized \in DOMAIN PLATFORM_MAP THEN PLATFORM_MAP[normalized]
        ELSE Bucket("all", <<>>)

_resolve_platform_string(platform_str) ==
    LET normalized == str_lower(str_strip(platform_str))
        platforms == str_split(normalized, ",")
    IN  IF normalized \in DOMAIN PLATFORM_MAP THEN PLATFORM_MAP[normalized]
        ELSE IF Len(platforms) > 1 THEN Bucket("all", <<str_strip(platform_str)>>)
        ELSE Bucket("all", IF Truthy(str_strip(platform_str))
                           THEN <<str_strip(platform_str)>> ELSE <<>>)

\* lines 190-201
FilenameHints ==
    <<<<"-macos", "macos", "darwin">>, <<"_macos", "macos", "darwin">>,
      <<"-darwin", "macos", "darwin">>, <<"_darwin", "macos", "darwin">>,
      <<"-osx", "macos", "darwin">>, <<"-linux", "linux", "linux">>,
      <<"_linux", "linux", "linux">>, <<"-windows", "windows", "windows">>,
      <<"_windows", "windows", "windows">>, <<"-win", "windows", "windows">>>>

\* lines 210-223
PathHints ==
    <<<<"/macos/", "macos", "darwin">>, <<"/darwin/", "macos", "darwin">>,
      <<"/osx/", "macos", "darwin">>, <<"/linux/", "linux", "linux">>,
      <<"/windows/", "windows", "windows">>, <<"/win/", "windows", "windows">>,
      <<"endpoints/macos", "macos", "darwin">>,
      <<"endpoints/windows", "windows", "windows">>,
      <<"servers/linux", "linux", "linux">>,
      <<"servers/macos", "macos", "darwin">>,
      <<"servers/windows", "windows", "windows">>>>

\* the first hint of the list that text contains
first_hint(hints, text) ==
    LET hit == {k \in 1..Len(hints) : Contains(text, hints[k][1])}
    IN  IF hit = {} THEN <<>>
        ELSE <<Bucket(hints[Least(hit)][2], <<hints[Least(hit)][3]>>)>>

\* strategy 1, lines 182-185
platform_from_field(spec) ==
    LET platform_str == Get(spec, "platform", "")
    IN  IF Truthy(platform_str) THEN <<_resolve_platform_string(platform_str)>>
        ELSE <<>>

\* strategy 2, lines 187-203
platform_from_filename(filename) ==
    IF Truthy(filename) THEN first_hint(FilenameHints, str_lower(filename)) ELSE <<>>

\* strategy 3, lines 205-225
platform_from_path(filepath) ==
    IF Truthy(filepath) THEN first_hint(PathHints, str_lower(filepath)) ELSE <<>>

\* lines 230-236: the tables of each platform that the query names
platform_scores(query_lower) ==
    [p \in DOMAIN PLATFORM_TABLES |->
        Cardinality({k \in 1..Len(PLATFORM_TABLES[p]) :
                        HasWord(query_lower, PLATFORM_TABLES[p][k])})]

\* variant: of the platforms with the maximum the first of the dict wins
platform_from_body_first(query_sql) ==
    IF ~Truthy(query_sql) THEN <<>>
    ELSE LET scores == platform_scores(str_lower(query_sql))
             max_score == Greatest({scores[p] : p \in DOMAIN scores})
             first == Least({k \in 1..Len(PLATFORMS) : scores[PLATFORMS[k]] = max_score})
             plat == PLATFORMS[first]
         IN  IF max_score > 0
             THEN <<Bucket(plat, <<IF plat = "macos" THEN "darwin" ELSE plat>>)>>
             ELSE <<>>

\* strategy 4, lines 227-244
platform_from_body(query_sql) ==
    IF ~Truthy(query_sql) THEN <<>>
    ELSE LET scores == platform_scores(str_lower(query_sql))
             max_score == Greatest({scores[p] : p \in DOMAIN scores})
             winners == {p \in DOMAIN scores : scores[p] = max_score}
         IN  IF max_score > 0 /\ Cardinality(winners) = 1
             THEN LET plat == CHOOSE p \in winners : TRUE
                  IN  <<Bucket(plat, <<IF plat = "macos" THEN "darwin" ELSE plat>>)>>
             ELSE <<>>

\* the result of the first strategy of the list that has one
first_result(results, default) ==
    LET hit == {k \in 1..Len(results) : results[k] # <<>>}
    IN  IF hit = {} THEN default ELSE results[Least(hit)][1]

\* variant: the file name is asked before the platform field
detect_platform_by_name(spec, filename, filepath, query_sql) ==
    first_result(<<platform_from_filename(filename), platform_from_field(spec),
                   platform_from_path(filepath), platform_from_body(query_sql)>>,
                 Bucket("all", <<>>))

detect_platform(spec, filename, filepath, query_sql) ==
    first_result(<<platform_from_field(spec), platform_from_filename(filename),
                   platform_from_path(filepath), platform_from_body(query_sql)>>,
                 Bucket("all", <<>>))

-----------------------------------------------------------------------------
(* Category detection.  A strategy gives <<>> when it has no result and    *)
(* <<category>> otherwise.                                                 *)

\* the vocabularies in the order of the dict
CATEGORY_KEYWORDS ==
    <<<<"detection",
        <<"detect", "alert", "suspicious", "malicious", "threat", "attack",
          "rootkit", "malware", "backdoor", "trojan", "worm", "exploit",
          "unauthorized", "anomaly", "intrusion", "c2", "command-and-control",
          "exfil", "lateral", "privilege", "escalation", "persistence",
          "evasion", "credential", "yara">>>>,
      <<"incident-response",
        <<"incident", "response", "forensic", "investigation", "artifact",
          "evidence", "timeline", "postmortem", "ir_", "ir-">>>>,
      <<"compliance",
        <<"compliance", "audit", "policy", "benchmark", "cis_", "cis-",
          "stig", "hipaa", "pci", "sox", "gdpr", "nist", "fedramp">>>>,
      <<"inventory",
        <<"inventory", "asset", "installed", "packages", "software",
          "hardware", "snapshot", "baseline", "enumerate">>>>,
      <<"performance",
        <<"performance", "perf", "cpu", "memory", "disk", "resource",
          "utilization", "metrics", "monitoring">>>>,
      <<"vulnerability",
        <<"vulnerability", "vuln", "cve", "patch", "update", "outdated",
          "version", "exploit">>>>>>

\* some keyword of the k-th vocabulary is in text
InVocabulary(k, text) ==
    \E j \in 1..Len(CATEGORY_KEYWORDS[k][2]) : Contains(text, CATEGORY_KEYWORDS[k][2][j])

\* variant: the vocabularies are asked from the last to the first
_match_category_keywords_last(text) ==
    LET hit == {k \in 1..Len(CATEGORY_KEYWORDS) : InVocabulary(k, text)}
    IN  IF hit = {} THEN "general" ELSE CATEGORY_KEYWORDS[Greatest(hit)][1]

_match_category_keywords(text) ==
    LET hit == {k \in 1..Len(CATEGORY_KEYWORDS) : InVocabulary(k, text)}
    IN  IF hit = {} THEN "general" ELSE CATEGORY_KEYWORDS[Least(hit)][1]

\* lines 375-391
mappings ==
    [c \in {"informational", "info", "detection", "detect", "incident-response",
            "incident_response", "ir", "compliance", "policy", "inventory",
            "asset", "performance", "perf", "vulnerability", "vuln"} |->
        CASE c \in {"informational", "info"} -> "general"
          [] c \in {"detection", "detect"} -> "detection"
          [] c \in {"incident-response", "incident_response", "ir"} ->
                "incident-response"
          [] c \in {"compliance", "policy"} -> "compliance"
          [] c \in {"inventory", "asset"} -> "inventory"
          [] c \in {"performance", "perf"} -> "performance"
          [] c \in {"vulnerability", "vuln"} -> "vulnerability"]

\* variant: the spaces of the purpose are kept
_normalize_category_spaced(category_str) ==
    LET cat == str_replace(str_lower(str_strip(category_str)), "_", "-")
    IN  IF cat \in DOMAIN mappings THEN mappings[cat]
        ELSE IF Truthy(cat) THEN cat ELSE "general"

_normalize_category(category_str) ==
    LET cat == str_replace(str_replace(str_lower(str_strip(category_str)),
                                       " ", "-"),
                           "_", "-")
    IN  IF cat \in DOMAIN mappings THEN mappings[cat]
        ELSE IF Truthy(cat) THEN cat ELSE "general"

\* strategy 1, lines 303-307
category_from_purpose(spec) ==
    LET purpose == Get(spec, "purpose", "")
    IN  IF Truthy(purpose) THEN <<_normalize_category(purpose)>> ELSE <<>>

\* spec.get("tags", []) as a list: a str is <<"str", s>> and is split, a
\* list is <<"list", l>>
TagList(spec) ==
    LET tags == Get(spec, "tags", <<"list", <<>>>>)
    IN  IF tags[1] = "str" THEN str_words(tags[2]) ELSE tags[2]

\* strategy 2, lines 309-316
category_from_tags(spec) ==
    LET tags == TagList(spec)
        hit == {k \in 1..Len(tags) :
                   _match_category_keywords(str_lower(tags[k])) # "general"}
    IN  IF hit = {} THEN <<>>
        ELSE <<_match_category_keywords(str_lower(tags[Least(hit)]))>>

\* strategy 3, lines 318-333
category_from_filename(filename) ==
    IF ~Truthy(filename) THEN <<>>
    ELSE LET base == str_lower(splitext_root(filename))
             cat == _match_category_keywords(base)
         IN  IF cat # "general" THEN <<cat>>
             ELSE IF Contains(base, "rootkit") THEN <<"detection">>
             ELSE IF Contains(base, "compliance") THEN <<"compliance">>
             ELSE IF Contains(base, "registry") /\ Contains(base, "monitor")
                  THEN <<"detection">>
             ELSE IF Contains(base, "security") THEN <<"detection">>
             ELSE <<>>

\* lines 338-357, one path segment
category_from_part(part) ==
    LET cat == _match_category_keywords(part)
    IN  IF cat # "general" THEN <<cat>>
        ELSE IF part \in {"detection", "detections"} THEN <<"detection">>
        ELSE IF part \in {"incident_response", "incident-response", "ir"}
             THEN <<"incident-response">>
        ELSE IF part \in {"compliance", "policy", "policies"} THEN <<"compliance">>
        ELSE IF part \in {"inventory", "assets"} THEN <<"inventory">>
        ELSE IF part \in {"vulnerability", "vulnerabilities", "vulns"}
             THEN <<"vulnerability">>
        ELSE IF part \in {"endpoints", "endpoint"} THEN <<"endpoints">>
        ELSE IF part \in {"servers", "server"} THEN <<"servers">>
        ELSE <<>>

\* strategy 4, lines 335-357
category_from_path(filepath) ==
    IF ~Truthy(filepath) THEN <<>>
    ELSE LET path_parts == str_split(str_lower(filepath), "/")
             hit == {k \in 1..Len(path_parts) : category_from_part(path_parts[k]) # <<>>}
         IN  IF hit = {} THEN <<>> ELSE category_from_part(path_parts[Least(hit)])

\* strategy 5, lines 360-363
category_from_name(query_name) ==
    IF Truthy(query_name) /\ _match_category_keywords(str_lower(query_name)) # "general"
    THEN <<_match_category_keywords(str_lower(query_name))>>
    ELSE <<>>

\* variant: the file name is asked before the tags
detect_category_by_name(spec, filename, filepath, query_name) ==
    first_result(<<category_from_purpose(spec), category_from_filename(filename),
                   category_from_tags(spec), category_from_path(filepath),
                   category_from_name(query_name)>>,
                 "general")

detect_category(spec, filename, filepath, query_name) ==
    first_result(<<category_from_purpose(spec), category_from_tags(spec),
                   category_from_filename(filename), category_from_path(filepath),
                   category_from_name(query_name)>>,
                 "general")

-----------------------------------------------------------------------------
(* The source records.  A SQL record is a .sql file below source_dir with  *)
(* what parse_sql_file found in it, its platform being <<>> for None and   *)
(* <<s>> for the string s; a structured record is one spec of a YAML,      *)
(* JSON or .conf file.                                                     *)

\* an optional value: <<>> or <<v>>
Maybe(S) == {<<>>} \cup {<<v>> : v \in S}

\* the dict with key set to the value of o, if o holds one
Opt(dict, key, o) ==
    IF o = <<>> THEN dict
    ELSE [k \in DOMAIN dict \cup {key} |-> IF k = key THEN o[1] ELSE dict[k]]

\* platform strings: alias table entries up to case, several platforms, a
\* padded string outside the table, and blanks
PlatformStrings == {"linux", "Darwin", "darwin, linux", "solaris ", "  "}

Purposes == {"Info", "Incident Response", "threat hunting"}

TagValues == {<<"list", <<"lateral movement compliance">>>>,
              <<"str", "lateral movement compliance">>,
              <<"list", <<"fleet", "exploit-patch">>>>,
              <<"str", "weekly audit">>}

\* bodies naming a macOS table, two Windows tables, one macOS and one Linux
\* table, no platform table, and a table whose name starts like a macOS one
Queries == {"SELECT * FROM launchd",
            "SELECT * FROM registry r JOIN services s",
            "SELECT * FROM launchd JOIN systemd",
            "SELECT * FROM processes",
            "SELECT * FROM launchd_overrides"}

StructuredPaths == {"packs/plain.yml", "packs/usb-macos.yml",
                    "conf/Endpoints/MacOS/osquery.yaml",
                    "packs/windows-registry-monitoring.conf",
                    "packs/registry-monitor.conf"}

QueryNames == {"Get USB devices", "Detect unsigned apps", "Patch level"}

StructuredRecord(filepath, name, query, platform, purpose, tags) ==
    [kind |-> "structured", filepath |-> filepath,
     spec |-> Opt(Opt(Opt([name |-> name, query |-> query],
                          "platform", platform),
                      "purpose", purpose),
                  "tags", tags)]

SqlRecord(rel_root, filename, platform, tags, query) ==
    [kind |-> "sql", source_dir |-> "kit", rel_root |-> rel_root,
     filename |-> filename,
     parsed |-> [platform |-> platform, tags |-> tags, query |-> query]]

Records ==
    {StructuredRecord(f, "Get USB devices", q, p, <<>>, <<>>) :
        f \in {"packs/plain.yml", "packs/usb-macos.yml",
               "conf/Endpoints/MacOS/osquery.yaml"},
        q \in Queries, p \in Maybe(PlatformStrings)}
    \cup {StructuredRecord(f, n, "SELECT * FROM processes", <<>>, u, t) :
        f \in StructuredPaths, n \in QueryNames,
        u \in Maybe(Purposes), t \in Maybe(TagValues)}
    \cup {SqlRecord(r, f, p, t, q) :
        r \in {".", "Detections", "linux", "misc"},
        f \in {"plain.sql", "usb-macos.sql", "01-rootkit-scan.sql",
               "registry_monitor.sql"},
        p \in Maybe({"linux", "posix"}),
        t \in {<<>>, <<"audit">>},
        q \in {"SELECT * FROM launchd", "SELECT * FROM processes"}}

\* the arguments process_sql_source (lines 626-639) and
\* process_structured_source (lines 741-754) pass to the two detectors
FilePath(rec) ==
    IF rec.kind = "sql"
    THEN path_join(IF rec.rel_root = "." THEN rec.source_dir
                   ELSE path_join(rec.source_dir, rec.rel_root),
                   rec.filename)
    ELSE rec.filepath

FileName(rec) == IF rec.kind = "sql" THEN rec.filename ELSE basename(rec.filepath)

PlatformSpec(rec) ==
    IF rec.kind = "sql"
    THEN [platform |-> IF rec.parsed.platform = <<>> THEN <<>>
                       ELSE rec.parsed.platform[1],
          tags |-> <<"list", rec.parsed.tags>>]
    ELSE rec.spec

CategorySpec(rec) ==
    IF rec.kind = "sql" THEN [tags |-> <<"list", rec.parsed.tags>>] ELSE rec.spec

QuerySql(rec) == IF rec.kind = "sql" THEN rec.parsed.query ELSE Get(rec.spec, "query", "")

QueryName(rec) ==
    IF rec.kind = "sql" THEN derive_query_name(rec.filename)
    ELSE Get(rec.spec, "name", "")

\* lines 642-645: the directory of a SQL file replaces the category when
\* it looks like a category
dir_category(rel_root, cat) ==
    IF rel_root # "." /\ detect_category(<<>>, "", rel_root, "") # "general"
    THEN rel_root
    ELSE cat

-----------------------------------------------------------------------------
(* The sorter, one record at a time.                                       *)

Clear ==
    /\ spc' = "read"
    /\ lib_subdir' = ""
    /\ yaml_platform' = <<>>
    /\ category' = ""

\* a structured record in which the values of the keys named by odd are
\* not strings: a number or a list where the detectors expect text
OddRecord(rec, keys) ==
    [kind |-> rec.kind, filepath |-> rec.filepath, spec |-> rec.spec, odd |-> keys]

\* platform: [darwin, linux]; purpose: 3; tags: [2024]
OddRecords ==
    {OddRecord(StructuredRecord("packs/usb-macos.yml", "Get USB devices",
                                "SELECT * FROM launchd",
                                <<<<"list", <<"darwin", "linux">>>>>>, <<>>, <<>>),
               {"platform"}),
     OddRecord(StructuredRecord("packs/plain.yml", "Patch level",
                                "SELECT * FROM processes",
                                <<>>, <<<<"int", 3>>>>, <<>>),
               {"purpose"}),
     OddRecord(StructuredRecord("packs/plain.yml", "Patch level",
                                "SELECT * FROM processes",
                                <<>>, <<>>, <<<<"list", <<<<"int", 2024>>>>>>>>),
               {"tags"})}

\* the keys of the record's spec that hold such a value
OddKeys(rec) == Get(rec, "odd", {})

\* line 252: platform_str.strip() raises AttributeError when the platform
\* field is truthy and not a string
PlatformRaises(rec) == "platform" \in OddKeys(rec)

\* line 372: category_str.strip() raises when the purpose is truthy and not
\* a string; line 314: tag.lower() raises when there is no purpose and the
\* first tag is not a string
CategoryRaises(rec) ==
    \/ "purpose" \in OddKeys(rec)
    \/ "tags" \in OddKeys(rec) /\ ~Truthy(Get(rec.spec, "purpose", ""))

InitSort ==
    /\ record \in Records
    /\ spc = "read"
    /\ lib_subdir = ""
    /\ yaml_platform = <<>>
    /\ category = ""
    /\ fs = <<>>
    /\ args = <<>>
    /\ run = 0
    /\ pc = "idle"
    /\ query_files = <<>>
    /\ scan_i = 0
    /\ name_to_queries = <<>>
    /\ todo = <<>>
    /\ files_to_modify = <<>>
    /\ counts = NoCounts
    /\ decisions = <<>>
    /\ output = <<>>
    /\ apply_i = 0
    /\ ops = <<>>
    /\ start = <<>>
    /\ prev = <<>>
    /\ FixIdle
    /\ ReadIdle

\* lines 626-631 and 741-746
DetectPlatform ==
    /\ spc = "read"
    /\ IF PlatformRaises(record)
       THEN /\ spc' = "raised"
            /\ UNCHANGED <<lib_subdir, yaml_platform>>
       ELSE /\ LET found == detect_platform(PlatformSpec(record), FileName(record),
                                            FilePath(record), QuerySql(record))
               IN  /\ lib_subdir' = found.lib_dir
                   /\ yaml_platform' = found.plat
            /\ spc' = "platform"
    /\ UNCHANGED <<record, category, dvars, fvars, rvars>>

\* lines 634-639 and 749-754
DetectCategory ==
    /\ spc = "platform"
    /\ IF CategoryRaises(record)
       THEN /\ spc' = "raised"
            /\ UNCHANGED category
       ELSE /\ category' = detect_category(CategorySpec(record), FileName(record),
                                           FilePath(record), QueryName(record))
            /\ spc' = "category"
    /\ UNCHANGED <<record, lib_subdir, yaml_platform, dvars, fvars, rvars>>

\* lines 642-672 and 756-790: the category of the output directory
Place ==
    /\ spc = "category"
    /\ category' = IF record.kind = "sql"
                   THEN dir_category(record.rel_root, category)
                   ELSE category
    /\ spc' = "placed"
    /\ UNCHANGED <<record, lib_subdir, yaml_platform, dvars, fvars, rvars>>

\* the loops of lines 613 and 735 go on to another record
NextRecord ==
    /\ spc = "placed"
    /\ record' \in Records
    /\ Clear
    /\ UNCHANGED <<dvars, fvars, rvars>>

NextSort ==
    \/ DetectPlatform
    \/ DetectCategory
    \/ Place
    \/ NextRecord

SpecSort == InitSort /\ [][NextSort]_vars

\* the sorter on the records above and on those with values of other types
InitQuality ==
    /\ record \in Records \cup OddRecords
    /\ spc = "read"
    /\ lib_subdir = ""
    /\ yaml_platform = <<>>
    /\ category = ""
    /\ DedupeIdle
    /\ FixIdle
    /\ ReadIdle

SpecQuality == InitQuality /\ [][NextSort]_vars

-----------------------------------------------------------------------------
(* The parsers of sort_queries.py.  parse_sql_file reads the lines of a    *)
(* .sql file, each with its line end; parse_yaml_file reads the documents  *)
(* of a stream, each given as its text between the separators and what     *)
(* yaml.safe_load makes of that text.                                      *)

\* str.rstrip()
str_rstrip(str) ==
    LET solid == {i \in 1..Len(str) : ~IsSpace(CharAt(str, i))}
    IN  IF solid = {} THEN "" ELSE SubSeq(str, 1, Greatest(solid))

\* str.rstrip(c) and str.lstrip(c) for one character c
rstrip_char(str, c) ==
    LET other == {i \in 1..Len(str) : CharAt(str, i) # c}
    IN  IF other = {} THEN "" ELSE SubSeq(str, 1, Greatest(other))

lstrip_char(str, c) ==
    LET other == {i \in 1..Len(str) : CharAt(str, i) # c}
    IN  IF other = {} THEN "" ELSE SubSeq(str, Least(other), Len(str))

\* str.startswith(prefix)
startswith(str, prefix) ==
    Len(prefix) <= Len(str) /\ SubSeq(str, 1, Len(prefix)) = prefix

\* str[n:]
From(str, n) == SubSeq(str, n + 1, Len(str))

\* sep.join(list)
RECURSIVE join(_, _)
join(sep, list) ==
    IF list = <<>> THEN ""
    ELSE IF Len(list) = 1 THEN list[1]
    ELSE list[1] \o sep \o join(sep, Tail(list))

\* the number that a run of decimal digits denotes
RECURSIVE DigitsValue(_)
DigitsValue(str) ==
    IF Len(str) = 0 THEN 0
    ELSE DigitsValue(SubSeq(str, 1, Len(str) - 1)) * Len(Digits)
         + (Least(Positions(Digits, CharAt(str, Len(str)))) - 1)

\* int(text): <<n>>, or <<>> for ValueError; whitespace around the number
\* and one sign before it are accepted
int_of(text) ==
    LET s == str_strip(text)
        signed == Len(s) > 0 /\ CharAt(s, 1) \in {"+", "-"}
        digits == IF signed THEN SubSeq(s, 2, Len(s)) ELSE s
    IN  IF Len(digits) > 0 /\ \A i \in 1..Len(digits) : IsDigit(CharAt(digits, i))
        THEN IF signed /\ CharAt(s, 1) = "-" THEN <<0 - DigitsValue(digits)>>
             ELSE <<DigitsValue(digits)>>
        ELSE <<>>

\* lines 413-422: the locals of parse_sql_file; None is <<>>
SqlLocals ==
    [description |-> "", platform |-> <<>>, interval |-> <<>>, tags |-> <<>>,
     references |-> <<>>, false_positives |-> <<>>, current_section |-> <<>>,
     query_lines |-> <<>>, in_metadata |-> TRUE, desc_lines |-> <<>>]

\* lines 428-469: a comment line of the metadata
MetadataLine(st, stripped) ==
    LET content == str_strip(lstrip_char(stripped, "-"))
        lowered == str_lower(content)
    IN  IF startswith(lowered, "tags:")
        THEN [st EXCEPT !.tags = str_words(str_strip(From(content, 5))),
                        !.current_section = <<>>]
        ELSE IF startswith(lowered, "platform:")
        THEN [st EXCEPT !.platform = <<str_strip(From(content, 9))>>,
                        !.current_section = <<>>]
        ELSE IF startswith(lowered, "interval:")
        THEN [st EXCEPT !.interval = IF int_of(From(content, 9)) # <<>>
                                     THEN int_of(From(content, 9)) ELSE @,
                        !.current_section = <<>>]
        ELSE IF startswith(lowered, "references:")
        THEN [st EXCEPT !.current_section = <<"references">>]
        ELSE IF startswith(lowered, "false positive")
        THEN [st EXCEPT !.current_section = <<"false_positives">>]
        ELSE IF st.current_section # <<>> /\ startswith(content, "* ")
        THEN IF st.current_section = <<"references">>
             THEN [st EXCEPT !.references = Append(@, str_strip(From(content, 2)))]
             ELSE [st EXCEPT !.false_positives =
                                 Append(@, str_strip(From(content, 2)))]
        ELSE IF ~Truthy(content)
        THEN [st EXCEPT !.current_section = <<>>]
        ELSE IF st.current_section = <<>>
                /\ (~Truthy(st.description) \/ st.desc_lines # <<>>)
        THEN [st EXCEPT !.desc_lines = Append(@, content)]
        ELSE st

\* variant: a comment line is read as metadata wherever it stands
SqlLineAlways(st, line) ==
    LET stripped == str_rstrip(line)
    IN  IF startswith(stripped, "--") THEN MetadataLine(st, stripped)
        ELSE IF st.in_metadata
        THEN [st EXCEPT !.in_metadata = FALSE,
                        !.description = join(" ", st.desc_lines),
                        !.query_lines = Append(@, rstrip_char(line, "\n"))]
        ELSE [st EXCEPT !.query_lines = Append(@, rstrip_char(line, "\n"))]

\* lines 425-476: one line of the file
SqlLine(st, line) ==
    LET stripped == str_rstrip(line)
    IN  IF st.in_metadata /\ startswith(stripped, "--")
        THEN MetadataLine(st, stripped)
        ELSE IF st.in_metadata
        THEN [st EXCEPT !.in_metadata = FALSE,
                        !.description = join(" ", st.desc_lines),
                        !.query_lines = Append(@, rstrip_char(line, "\n"))]
        ELSE [st EXCEPT !.query_lines = Append(@, rstrip_char(line, "\n"))]

\* lines 481-484: the blank lines at both ends are dropped
RECURSIVE TrimLines(_)
TrimLines(lines) ==
    IF lines # <<>> /\ ~Truthy(str_strip(lines[Len(lines)]))
    THEN TrimLines(SubSeq(lines, 1, Len(lines) - 1))
    ELSE IF lines # <<>> /\ ~Truthy(str_strip(lines[1]))
    THEN TrimLines(Tail(lines))
    ELSE lines

\* lines 478-494: the dict that parse_sql_file returns
SqlResult(st) ==
    [description |-> IF ~Truthy(st.description) THEN join(" ", st.desc_lines)
                     ELSE st.description,
     platform |-> st.platform,
     interval |-> st.interval,
     tags |-> st.tags,
     references |-> st.references,
     false_positives |-> st.false_positives,
     query |-> join("\n", TrimLines(st.query_lines))]

\* text[i:].startswith(prefix), i counted from 1
StartsWithAt(text, i, prefix) ==
    /\ i + Len(prefix) - 1 <= Len(text)
    /\ SubSeq(text, i, i + Len(prefix) - 1) = prefix

\* where (.+) starts in rest, the text after "name:", 0 when nowhere: \s*
\* takes as much whitespace as leaves a character other than a line end
HintStart(rest) ==
    LET starts == {k \in 1..Len(rest) :
                      /\ CharAt(rest, k) # "\n"
                      /\ \A h \in 1..(k - 1) : IsSpace(CharAt(rest, h))}
    IN  IF starts = {} THEN 0 ELSE Greatest(starts)

\* the text from position k to the end of its line
LineFrom(rest, k) ==
    LET ends == {e \in k..Len(rest) : CharAt(rest, e) = "\n"}
    IN  SubSeq(rest, k, IF ends = {} THEN Len(rest) ELSE Least(ends) - 1)

\* re.search(r"name:\s*(.+)", raw_doc).group(1).strip(), <<>> without a
\* match: the leftmost "name:" after which (.+) can start
name_hint(raw_doc) ==
    LET hits == {i \in 1..Len(raw_doc) :
                    /\ StartsWithAt(raw_doc, i, "name:")
                    /\ HintStart(From(raw_doc, i + 4)) > 0}
    IN  IF hits = {} THEN <<>>
        ELSE <<str_strip(LineFrom(From(raw_doc, Least(hits) + 4),
                                  HintStart(From(raw_doc, Least(hits) + 4))))>>

\* bool(x) of a loaded value: a value is <<"none">>, <<"str", text>>,
\* <<"int", n>>, <<"list", items>> or <<"dict", mapping>>
Filled(value) ==
    CASE value[1] = "none" -> FALSE
      [] value[1] = "str" -> Truthy(value[2])
      [] value[1] = "int" -> value[2] # 0
      [] value[1] = "list" -> value[2] # <<>>
      [] value[1] = "dict" -> DOMAIN value[2] # {}

\* lines 508-523: what the loop does with one document: "skip", "warn",
\* "yield" or "raise" (spec.get on a value that is not a mapping)
DocOutcome(doc) ==
    LET raw_doc == str_strip(doc.raw)
    IN  IF ~Truthy(raw_doc) \/ startswith(raw_doc, "#") THEN "skip"
        ELSE IF doc.load[1] = "error" THEN "warn"
        ELSE IF doc.load[1] # "dict" THEN "skip"
        ELSE LET spec == Get(doc.load[2], "spec", <<"dict", <<>>>>)
             IN  IF ~Filled(spec) THEN "skip"
                 ELSE IF spec[1] # "dict" THEN "raise"
                 ELSE IF /\ Filled(Get(spec[2], "name", <<"none">>))
                         /\ Filled(Get(spec[2], "query", <<"none">>))
                 THEN "yield"
                 ELSE "skip"

-----------------------------------------------------------------------------
(* The files of the parsers.                                               *)

\* most lines of a .sql file
MaxLines == 3

\* most documents of a YAML stream
MaxDocs == 2

SqlLineSet ==
    {"-- tags: a b\n", "-- Platform: darwin\n", "-- interval: 60\n",
     "-- references:\n", "-- * item\n", "-- Finds things\n",
     "SELECT 1\n", "\n", " -- tags: z\n"}

RECURSIVE Lists(_, _)
Lists(S, n) ==
    IF n = 0 THEN {<<>>}
    ELSE LET shorter == Lists(S, n - 1)
         IN  shorter \cup {Append(s, e) : s \in {x \in shorter : Len(x) = n - 1},
                                          e \in S}

SqlFiles == Lists(SqlLineSet, MaxLines)

\* the mapping a well-formed query document loads as
QueryDoc(name, query) ==
    <<"dict", [spec |-> <<"dict", [name |-> name, query |-> query]>>]>>

\* documents, each with the text between the separators and what
\* yaml.safe_load makes of that text
DocSet ==
    {[raw |-> " \n", load |-> <<"none">>],
     [raw |-> "# spec: x\n", load |-> <<"none">>],
     [raw |-> "\nspec:\n  name: [a\n", load |-> <<"error">>],
     [raw |-> "\nspec: [\n", load |-> <<"error">>],
     [raw |-> "\n- a\n", load |-> <<"list", <<<<"str", "a">>>>>>],
     [raw |-> "\nkind: query\n", load |-> <<"dict", [kind |-> <<"str", "query">>]>>],
     [raw |-> "\nspec:\n  name: a\n  query: q\n",
      load |-> QueryDoc(<<"str", "a">>, <<"str", "q">>)],
     [raw |-> "\nspec:\n  name: ''\n  query: q\n",
      load |-> QueryDoc(<<"str", "">>, <<"str", "q">>)],
     [raw |-> "\nspec:\n  name: a\n  query:\n",
      load |-> QueryDoc(<<"str", "a">>, <<"none">>)],
     [raw |-> "\nspec:\n  name: a\n",
      load |-> <<"dict", [spec |-> <<"dict", [name |-> <<"str", "a">>]>>]>>],
     [raw |-> "\nkind: policy\nspec:\n  name: 5\n  query: q\n",
      load |-> <<"dict", [kind |-> <<"str", "policy">>,
                          spec |-> <<"dict", [name |-> <<"int", 5>>,
                                              query |-> <<"str", "q">>]>>]>>],
     [raw |-> "\nspec:\n", load |-> <<"dict", [spec |-> <<"none">>]>>],
     [raw |-> "\nspec: text\n", load |-> <<"dict", [spec |-> <<"str", "text">>]>>],
     [raw |-> "\nspec:\n- name: a\n",
      load |-> <<"dict", [spec |-> <<"list", <<<<"dict", [name |-> <<"str", "a">>]>>>>>>]>>]}

YamlStreams == Lists(DocSet, MaxDocs)

-----------------------------------------------------------------------------
(* One call of a parser.                                                   *)

InitSql ==
    /\ rd_input \in SqlFiles
    /\ rd_i = 0
    /\ rd_pc = "sql"
    /\ rd_locals = SqlLocals
    /\ rd_result = <<>>
    /\ rd_yielded = <<>>
    /\ rd_warned = <<>>
    /\ DedupeIdle
    /\ SortIdle
    /\ FixIdle

\* lines 424-476, one line of the file
ReadSqlLine ==
    /\ rd_pc = "sql"
    /\ rd_i < Len(rd_input)
    /\ rd_locals' = SqlLine(rd_locals, rd_input[rd_i + 1])
    /\ rd_i' = rd_i + 1
    /\ UNCHANGED <<rd_input, rd_pc, rd_result, rd_yielded, rd_warned,
                   dvars, svars, fvars>>

\* lines 478-494, after the last line
ReturnSql ==
    /\ rd_pc = "sql"
    /\ rd_i = Len(rd_input)
    /\ rd_result' = <<SqlResult(rd_locals)>>
    /\ rd_pc' = "done"
    /\ UNCHANGED <<rd_input, rd_i, rd_locals, rd_yielded, rd_warned,
                   dvars, svars, fvars>>

NextSql ==
    \/ ReadSqlLine
    \/ ReturnSql

SpecSql == InitSql /\ [][NextSql]_vars

InitYaml ==
    /\ rd_input \in YamlStreams
    /\ rd_i = 0
    /\ rd_pc = "yaml"
    /\ rd_locals = <<>>
    /\ rd_result = <<>>
    /\ rd_yielded = <<>>
    /\ rd_warned = <<>>
    /\ DedupeIdle
    /\ SortIdle
    /\ FixIdle

\* lines 507-523, one document of the stream; an exception leaves the
\* generator and, through list() at line 733, the program
ReadDoc ==
    /\ rd_pc = "yaml"
    /\ rd_i < Len(rd_input)
    /\ LET doc == rd_input[rd_i + 1]
           outcome == DocOutcome(doc)
           hint == name_hint(str_strip(doc.raw))
       IN  /\ rd_pc' = IF outcome = "raise" THEN "raised" ELSE rd_pc
           /\ rd_yielded' =
                 IF outcome = "yield"
                 THEN Append(rd_yielded,
                             [kind |-> Get(doc.load[2], "kind", <<"str", "query">>),
                              spec |-> doc.load[2].spec[2],
                              at |-> rd_i + 1])
                 ELSE rd_yielded
           /\ rd_warned' =
                 IF outcome = "warn"
                 THEN Append(rd_warned,
                             IF hint # <<>> THEN hint[1]
                             ELSE "document #" \o ToString(rd_i))
                 ELSE rd_warned
    /\ rd_i' = rd_i + 1
    /\ UNCHANGED <<rd_input, rd_locals, rd_result, dvars, svars, fvars>>

\* the generator is exhausted
ReturnYaml ==
    /\ rd_pc = "yaml"
    /\ rd_i = Len(rd_input)
    /\ rd_pc' = "done"
    /\ UNCHANGED <<rd_input, rd_i, rd_locals, rd_result, rd_yielded, rd_warned,
                   dvars, svars, fvars>>

NextYaml ==
    \/ ReadDoc
    \/ ReturnYaml

SpecYaml == InitYaml /\ [][NextYaml]_vars

-----------------------------------------------------------------------------
(* The issue fixers: fix_query_issues.py, which has --dry-run and removes  *)
(* the queries with YARA variables, and tools/fix_query_issues.py, which   *)
(* has neither.  A loaded file is <<"list", items>>, <<"dict">> for a      *)
(* mapping and <<"none">> for an empty or unparseable file; an item is     *)
(* <<"dict", record>> or <<"str", text>>.  The values of a record's query  *)
(* and interval are <<"str", text>>, <<"int", n>> or <<"none">>; the       *)
(* value of name is a string.                                              *)

\* re.search(r'\$(?!\$)(?!FLEET_)[a-zA-Z_][a-zA-Z0-9_]*', sql): the match
\* may start at any dollar sign of sql
has_yara_variables(sql) ==
    /\ Truthy(sql)
    /\ \E i \in 1..(Len(sql) - 1) :
          /\ CharAt(sql, i) = "$"
          /\ CharAt(sql, i + 1) # "$"
          /\ ~StartsWithAt(sql, i + 1, "FLEET_")
          /\ IsLetter(CharAt(sql, i + 1)) \/ CharAt(sql, i + 1) = "_"

\* sql = query.get("query", "")
BodyOf(query) == Get(query, "query", <<"str", "">>)

\* variant: only a missing or empty body counts, not a blank one
NoSqlUnstripped(query) == ~Filled(BodyOf(query))

\* not sql or not sql.strip(), where sql is falsy or a string
NoSql(query) == ~Filled(BodyOf(query)) \/ ~Truthy(str_strip(BodyOf(query)[2]))

\* sql.strip() raises AttributeError: sql is truthy and not a string
BodyRaises(query) == Filled(BodyOf(query)) /\ BodyOf(query)[1] # "str"

\* query.get("name", "unknown")
NameOf(query) == Get(query, "name", "unknown")

\* the interval is a string that int() accepts
IntervalFixable(query) ==
    /\ "interval" \in DOMAIN query
    /\ query.interval[1] = "str"
    /\ int_of(query.interval[2]) # <<>>

\* lines 117-129: the record with its interval as an int
FixInterval(query) ==
    IF IntervalFixable(query)
    THEN [query EXCEPT !.interval = <<"int", int_of(@[2])[1]>>]
    ELSE query

NoFixCounts == [yara_removed |-> 0, no_sql_removed |-> 0, interval_fixed |-> 0,
                files_modified |-> 0, files_deleted |-> 0]

\* the locals of main() before the items of a file: new_queries, modified,
\* the counters, the printed lines, and whether an exception left the loop
FixLocals(counted) ==
    [new_queries |-> <<>>, modified |-> FALSE, counts |-> counted,
     lines |-> <<>>, raised |-> FALSE]

\* lines 94-131 of fix_query_issues.py: one record of a file
FixRecord(acc, item, filepath, dry_run) ==
    LET query == item[2]
        said(line) == IF dry_run
                      THEN Append(acc.lines, [line |-> line, filepath |-> filepath,
                                              name |-> NameOf(query)])
                      ELSE acc.lines
    IN  IF BodyRaises(query) THEN [acc EXCEPT !.raised = TRUE]
        ELSE IF NoSql(query)
        THEN [acc EXCEPT !.lines = said("NO SQL"),
                         !.counts.no_sql_removed = @ + 1,
                         !.modified = TRUE]
        ELSE IF has_yara_variables(BodyOf(query)[2])
        THEN [acc EXCEPT !.lines = said("YARA"),
                         !.counts.yara_removed = @ + 1,
                         !.modified = TRUE]
        ELSE IF IntervalFixable(query)
        THEN [acc EXCEPT !.lines = said("INTERVAL"),
                         !.counts.interval_fixed = @ + 1,
                         !.modified = TRUE,
                         !.new_queries = Append(@, <<"dict", FixInterval(query)>>)]
        ELSE [acc EXCEPT !.new_queries = Append(@, item)]

\* the loop of fix_query_issues.py over the items of one file, lines 89-131
RECURSIVE FixItems(_, _, _, _, _)
FixItems(data, i, filepath, dry_run, acc) ==
    IF i > Len(data) \/ acc.raised THEN acc
    ELSE FixItems(data, i + 1, filepath, dry_run,
                  IF data[i][1] # "dict"
                  THEN [acc EXCEPT !.new_queries = Append(@, data[i])]
                  ELSE FixRecord(acc, data[i], filepath, dry_run))

\* lines 55-72 of tools/fix_query_issues.py: one record of a file; there is
\* no YARA test, and the NO SQL line is always printed
ToolsFixRecord(acc, item) ==
    LET query == item[2]
    IN  IF BodyRaises(query) THEN [acc EXCEPT !.raised = TRUE]
        ELSE IF NoSql(query)
        THEN [acc EXCEPT !.lines = Append(@, [line |-> "NO SQL",
                                              name |-> NameOf(query)]),
                         !.counts.no_sql_removed = @ + 1,
                         !.modified = TRUE]
        ELSE IF IntervalFixable(query)
        THEN [acc EXCEPT !.counts.interval_fixed = @ + 1,
                         !.modified = TRUE,
                         !.new_queries = Append(@, <<"dict", FixInterval(query)>>)]
        ELSE [acc EXCEPT !.new_queries = Append(@, item)]

\* the loop of tools/fix_query_issues.py over the items of one file, lines
\* 49-72
RECURSIVE ToolsFixItems(_, _, _)
ToolsFixItems(data, i, acc) ==
    IF i > Len(data) \/ acc.raised THEN acc
    ELSE ToolsFixItems(data, i + 1,
                       IF data[i][1] # "dict"
                       THEN [acc EXCEPT !.new_queries = Append(@, data[i])]
                       ELSE ToolsFixRecord(acc, data[i]))

\* lines 135-141 and 75-82 of the tool: an emptied file is deleted, any
\* other one is written
FixStore(files, filepath, new_queries) ==
    IF new_queries = <<>> THEN Remove(files, filepath)
    ELSE [files EXCEPT ![filepath] = <<"list", new_queries>>]

\* lines 133-144 and 74-83 of the tool: what one file does to the state,
\* for the result acc of its item loop; an exception ends the program
FixOutcome(filepath, acc, mutating, said) ==
    LET stored == ~acc.raised /\ acc.modified /\ mutating
    IN  /\ fx_pc' = IF acc.raised THEN "raised" ELSE fx_pc
        /\ fx_counts' =
              IF stored
              THEN IF acc.new_queries = <<>>
                   THEN [acc.counts EXCEPT !.files_deleted = @ + 1]
                   ELSE [acc.counts EXCEPT !.files_modified = @ + 1]
              ELSE acc.counts
        /\ fx_fs' = IF stored THEN FixStore(fx_fs, filepath, acc.new_queries)
                    ELSE fx_fs
        /\ fx_output' =
              fx_output \o acc.lines
              \o (IF stored /\ (said \/ acc.new_queries = <<>>)
                  THEN <<[line |-> IF acc.new_queries = <<>> THEN "Deleted"
                                   ELSE "Modified",
                          filepath |-> filepath]>>
                  ELSE <<>>)

-----------------------------------------------------------------------------
(* The corpora of the fixers.                                              *)

\* most items in the first file
MaxItems == 2

FixBodies == {"SELECT 1", "", " \n", "'$h'", "'$$h'", "'$FLEET_H'"}

FixItemSet ==
    {<<"dict", [name |-> "q", query |-> <<"str", b>>]>> : b \in FixBodies}
    \cup {<<"dict", [query |-> <<"none">>]>>,
          <<"dict", [name |-> "bare"]>>,
          <<"dict", [name |-> "n", query |-> <<"int", 0>>]>>,
          <<"dict", [name |-> "n", query |-> <<"int", 5>>]>>,
          <<"dict", [name |-> "i", query |-> <<"str", "SELECT 1">>,
                     interval |-> <<"str", " 60">>]>>,
          <<"dict", [name |-> "i", query |-> <<"str", "SELECT 1">>,
                     interval |-> <<"str", "soon">>]>>,
          <<"dict", [name |-> "i", query |-> <<"str", "SELECT 1">>,
                     interval |-> <<"int", 60>>]>>,
          <<"str", "stray">>}

RECURSIVE ItemLists(_)
ItemLists(n) ==
    IF n = 0 THEN {<<>>}
    ELSE LET shorter == ItemLists(n - 1)
         IN  shorter \cup {Append(s, e) : s \in {x \in shorter : Len(x) = n - 1},
                                          e \in FixItemSet}

\* what the second file holds, when there is one
SecondFiles ==
    {<<"dict">>, <<"none">>,
     <<"list", <<<<"dict", [name |-> "q", query |-> <<"str", "SELECT 1">>]>>,
                 <<"dict", [name |-> "q", query |-> <<"str", "">>]>>>>>>}

FixCorpora ==
    {[f \in {PathAll} |-> <<"list", l>>] : l \in ItemLists(MaxItems)}
    \cup {[f \in {PathAll, PathMacA} |->
              IF f = PathAll THEN <<"list", l>> ELSE d] :
          l \in ItemLists(MaxItems), d \in SecondFiles}

Programs == {"fix_query_issues.py", "tools/fix_query_issues.py"}

-----------------------------------------------------------------------------
(* One invocation of a fixer.                                              *)

\* tools/fix_query_issues.py has no --dry-run
InitFix ==
    /\ \E files \in FixCorpora, p \in Programs, d \in BOOLEAN :
          /\ p = "tools/fix_query_issues.py" => ~d
          /\ fx_fs = files
          /\ fx_start = files
          /\ fx_args = [program |-> p, dry_run |-> d]
          /\ fx_files = find_query_files(files)
    /\ fx_pc = "files"
    /\ fx_i = 0
    /\ fx_counts = NoFixCounts
    /\ fx_output = <<>>
    /\ DedupeIdle
    /\ SortIdle
    /\ ReadIdle

\* fix_query_issues.py lines 78-144, one file
FixFile ==
    /\ fx_pc = "files"
    /\ fx_args.program = "fix_query_issues.py"
    /\ fx_i < Len(fx_files)
    /\ LET filepath == fx_files[fx_i + 1]
           data == fx_fs[filepath]
       IN  IF data[1] # "list"
           THEN UNCHANGED <<fx_fs, fx_pc, fx_counts, fx_output>>
           ELSE FixOutcome(filepath,
                           FixItems(data[2], 1, filepath, fx_args.dry_run,
                                    FixLocals(fx_counts)),
                           ~fx_args.dry_run, TRUE)
    /\ fx_i' = fx_i + 1
    /\ UNCHANGED <<fx_start, fx_args, fx_files, dvars, svars, rvars>>

\* tools/fix_query_issues.py lines 32-83, one file
ToolsFixFile ==
    /\ fx_pc = "files"
    /\ fx_args.program = "tools/fix_query_issues.py"
    /\ fx_i < Len(fx_files)
    /\ LET filepath == fx_files[fx_i + 1]
           data == fx_fs[filepath]
       IN  IF data[1] # "list"
           THEN UNCHANGED <<fx_fs, fx_pc, fx_counts, fx_output>>
           ELSE FixOutcome(filepath,
                           ToolsFixItems(data[2], 1, FixLocals(fx_counts)),
                           TRUE, FALSE)
    /\ fx_i' = fx_i + 1
    /\ UNCHANGED <<fx_start, fx_args, fx_files, dvars, svars, rvars>>

\* lines 146-157 and lines 85-88 of the tool, after the last file
FixSummary ==
    /\ fx_pc = "files"
    /\ fx_i = Len(fx_files)
    /\ fx_output' = Append(fx_output,
                           [line |-> "Summary",
                            yara_removed |-> fx_counts.yara_removed,
                            no_sql_removed |-> fx_counts.no_sql_removed,
                            interval_fixed |-> fx_counts.interval_fixed])
    /\ fx_pc' = "done"
    /\ UNCHANGED <<fx_fs, fx_start, fx_args, fx_files, fx_i, fx_counts,
                   dvars, svars, rvars>>

NextFix ==
    \/ FixFile
    \/ ToolsFixFile
    \/ FixSummary

SpecFix == InitFix /\ [][NextFix]_vars

-----------------------------------------------------------------------------
(* What the properties below speak about, read off the corpus the          *)
(* invocation started with.                                                *)

\* the occurrences of the corpus, as (file, index in the file)
StartOccs ==
    UNION {{[filepath |-> f, index |-> i] : i \in 0..(Len(start[f]) - 1)} :
           f \in DOMAIN start}

EntryAt(o) == start[o.filepath][o.index + 1]

GroupOf(n) == {o \in StartOccs : "name" \in DOMAIN EntryAt(o) /\ EntryAt(o).name = n}

DupNames == {n \in Names : Cardinality(GroupOf(n)) >= 2}

Id(occ) == [filepath |-> occ.filepath, index |-> occ.index]

Range(s) == {s[i] : i \in 1..Len(s)}

\* the indices scheduled for removal from file f
Scheduled(f) ==
    UNION {Range(files_to_modify[k].indices) :
           k \in {j \in 1..Len(files_to_modify) : files_to_modify[j].filepath = f}}

\* the entries of file f that are not scheduled, in their order
RECURSIVE KeepFrom(_, _, _)
KeepFrom(queries, drop, i) ==
    IF i >= Len(queries) THEN <<>>
    ELSE (IF i \in drop THEN <<>> ELSE <<queries[i + 1]>>)
         \o KeepFrom(queries, drop, i + 1)

Kept(f) == KeepFrom(start[f], Scheduled(f), 0)

Decided == pc \in {"apply", "done"}

Applied == pc = "done" /\ ~args.dry_run

SimTo(winner, o) == sql_similarity(winner.sql, SqlOf(EntryAt(o)))

Dir(filepath) == SubSeq(filepath, 1, Len(filepath) - 1)

-----------------------------------------------------------------------------
\* C1: for every name with two or more occurrences, the decided winner is an
\* occurrence of minimum score, it is never scheduled for removal, and after
\* the apply phase its file exists and still holds it.
C1_WinnerRetained ==
    /\ Decided => DOMAIN decisions = DupNames
    /\ \A n \in DOMAIN decisions :
          LET w == decisions[n].winner
          IN  /\ Id(w) \in GroupOf(n)
              /\ w.query = EntryAt(Id(w))
              /\ \A o \in GroupOf(n) : w.score <= score_query(o.filepath)
              /\ w.index \notin Scheduled(w.filepath)
              /\ Applied =>
                    /\ w.filepath \in DOMAIN fs
                    /\ fs[w.filepath] = Kept(w.filepath)
                    /\ \E i \in 1..Len(fs[w.filepath]) : fs[w.filepath][i] = w.query

\* a finished mutating run that removed a loser from the winner's own file
C1_Witness ==
    /\ Applied
    /\ \E n \in DOMAIN decisions :
          \E k \in 1..Len(decisions[n].losers) :
             decisions[n].losers[k].filepath = decisions[n].winner.filepath

\* C2: every non-winner occurrence of a decided name is a loser, and scheduled,
\* exactly if its similarity to the winner's body reaches the threshold;
\* otherwise it is listed as different; it is in exactly one of the two lists,
\* and the counters count the two lists.
C2_LoserIffSimilar ==
    /\ \A n \in DOMAIN decisions :
          LET d == decisions[n]
              losers == {Id(d.losers[k]) : k \in 1..Len(d.losers)}
              different == {Id(d.different[k].occ) : k \in 1..Len(d.different)}
          IN  /\ Len(d.losers) + Len(d.different) = Cardinality(GroupOf(n)) - 1
              /\ losers \cap different = {}
              /\ losers \cup different = GroupOf(n) \ {Id(d.winner)}
              /\ \A o \in GroupOf(n) \ {Id(d.winner)} :
                    /\ o \in losers <=> AtLeast(SimTo(d.winner, o), args.similarity)
                    /\ o \in losers <=> o.index \in Scheduled(o.filepath)
              /\ \A k \in 1..Len(d.different) :
                    d.different[k].similarity = SimTo(d.winner, Id(d.different[k].occ))
    /\ Decided =>
          /\ counts.removed = Cardinality(UNION {{<<f, i>> : i \in Scheduled(f)} :
                                                 f \in DOMAIN start})
          /\ counts.different + counts.removed + counts.kept =
                Cardinality(UNION {GroupOf(n) : n \in DupNames})

\* a decided group with a loser and a different occurrence
C2_Witness ==
    /\ Decided
    /\ \E n \in DOMAIN decisions :
          decisions[n].losers # <<>> /\ decisions[n].different # <<>>

\* the entries named n that file f holds now, as positions of fs[f]
NamedIn(f, n) ==
    {i \in 1..Len(fs[f]) : "name" \in DOMAIN fs[f][i] /\ fs[f][i].name = n}

\* C3 as stated: after a finished mutating run no file holds two entries with
\* the same name.
C3_UniqueNamePerFile ==
    Applied => \A f \in DOMAIN fs : \A n \in Names : Cardinality(NamedIn(f, n)) <= 1

\* C3 amended: after a finished mutating run, two entries of one file with the
\* same name are never both similar to the winner of that name: at most one
\* of them reaches the threshold against the winner's body.
C3_NoSimilarPairPerFile ==
    Applied =>
       \A f \in DOMAIN fs : \A n \in Names :
          \A i \in NamedIn(f, n) : \A j \in NamedIn(f, n) :
             i < j =>
                /\ n \in DOMAIN decisions
                /\ ~(/\ AtLeast(sql_similarity(decisions[n].winner.sql, SqlOf(fs[f][i])),
                                args.similarity)
                     /\ AtLeast(sql_similarity(decisions[n].winner.sql, SqlOf(fs[f][j])),
                                args.similarity))

\* a finished mutating run that removed a loser from a file in which two
\* entries of that name are left
C3_Witness ==
    /\ Applied
    /\ \E n \in DOMAIN decisions :
          \E k \in 1..Len(decisions[n].losers) :
             LET f == decisions[n].losers[k].filepath
             IN  f \in DOMAIN fs /\ Cardinality(NamedIn(f, n)) >= 2

\* C4 as stated: an occurrence is never removed because of a winner that is
\* stored in another location (another directory).
C4_NoRemovalAcrossLocations ==
    \A n \in DOMAIN decisions :
       \A k \in 1..Len(decisions[n].losers) :
          Dir(decisions[n].losers[k].filepath) = Dir(decisions[n].winner.filepath)

\* C4 amended: an occurrence stored in another location than the winner of its
\* name is kept exactly if its similarity to the winner's body is below the
\* threshold; otherwise it is scheduled, and the finished mutating run has
\* removed it from its file.
C4_AcrossLocationsBySimilarity ==
    \A n \in DOMAIN decisions :
       LET w == decisions[n].winner
       IN  \A o \in GroupOf(n) :
              Dir(o.filepath) # Dir(w.filepath) =>
                 /\ o.index \in Scheduled(o.filepath)
                       <=> AtLeast(SimTo(w, o), args.similarity)
                 /\ Applied =>
                       IF Kept(o.filepath) = <<>> THEN o.filepath \notin DOMAIN fs
                       ELSE o.filepath \in DOMAIN fs /\ fs[o.filepath] = Kept(o.filepath)

\* a finished mutating run with a winner in one directory, a removed
\* occurrence in another and a kept one in another
C4_Witness ==
    /\ Applied
    /\ \E n \in DOMAIN decisions :
          LET w == decisions[n].winner
          IN  /\ \E o \in GroupOf(n) :
                    /\ Dir(o.filepath) # Dir(w.filepath)
                    /\ o.index \in Scheduled(o.filepath)
              /\ \E o \in GroupOf(n) :
                    /\ Dir(o.filepath) # Dir(w.filepath)
                    /\ o.index \notin Scheduled(o.filepath)

\* C5: the invocation that follows a finished mutating one, with the same
\* threshold, schedules nothing, counts no removal and changes no file.
C5_SecondRunRemovesNothing ==
    (run = 2 /\ ~prev[1].dry_run) =>
       /\ files_to_modify = <<>>
       /\ counts.removed = 0
       /\ \A n \in DOMAIN decisions : decisions[n].losers = <<>>
       /\ ops = <<>>
       /\ fs = start
       /\ start = prev[1].final

\* a second mutating run that finished after a first one that removed
\* entries, and that found a name group still to decide
C5_Witness ==
    /\ run = 2
    /\ ~prev[1].dry_run
    /\ prev[1].ops # <<>>
    /\ Applied
    /\ decisions # <<>>

\* what an invocation decided: per name the winner, the losers and the
\* different occurrences, and the three counters
Verdict(dec, cnt) ==
    [groups |-> [n \in DOMAIN dec |->
                    [winner |-> Id(dec[n].winner),
                     losers |-> {Id(dec[n].losers[k]) : k \in 1..Len(dec[n].losers)},
                     different |-> {Id(dec[n].different[k].occ) :
                                    k \in 1..Len(dec[n].different)}]],
     kept |-> cnt.kept, removed |-> cnt.removed, different |-> cnt.different]

\* C6: an invocation with --dry-run writes and deletes no file, and the
\* mutating invocation on the same corpus with the same threshold decides the
\* same winner, losers and different occurrences per name and counts the same.
C6_DryRunEquivalent ==
    /\ args.dry_run => (fs = start /\ ops = <<>>)
    /\ (run = 2 /\ prev[1].dry_run) => (prev[1].ops = <<>> /\ prev[1].final = prev[1].start)
    /\ (run = 2 /\ prev[1].dry_run /\ ~args.dry_run /\ Decided) =>
          /\ Verdict(decisions, counts) = Verdict(prev[1].decisions, prev[1].counts)
          /\ files_to_modify = prev[1].files_to_modify

\* a mutating invocation that removed entries after a dry run that had
\* scheduled them
C6_Witness ==
    /\ run = 2
    /\ prev[1].dry_run
    /\ prev[1].files_to_modify # <<>>
    /\ Applied
    /\ ops # <<>>

\* C7: a file is written or deleted only in the apply phase, when every file
\* of the corpus has been scanned and every name with two or more occurrences
\* has its decision; until then the corpus is as the invocation found it.
C7_NoRemovalBeforeLastDecision ==
    /\ (ops # <<>> \/ fs # start) =>
          /\ pc \in {"apply", "done"}
          /\ scan_i = Len(query_files)
          /\ Range(query_files) = DOMAIN start
          /\ todo = <<>>
          /\ DOMAIN decisions = DupNames
    /\ pc \in {"scan", "dedupe"} => (ops = <<>> /\ fs = start)
    /\ Len(ops) = IF pc \in {"apply", "done"} THEN apply_i ELSE 0

\* the apply phase has changed one file and has another one still to change
C7_Witness ==
    /\ pc = "apply"
    /\ ops # <<>>
    /\ apply_i < Len(files_to_modify)

\* o was discovered before p: its file sorts first, or it is the same file and
\* its index is smaller
Before(o, p) ==
    \/ PathLess(o.filepath, p.filepath)
    \/ o.filepath = p.filepath /\ o.index < p.index

\* C8: the winner of a name is, among its occurrences of minimum score, the
\* one discovered first; losers and different occurrences of equal score are
\* listed in discovery order; and an invocation on the corpus the previous
\* one started with decides what the previous one decided.
C8_StableAndRepeatable ==
    /\ \A n \in DOMAIN decisions :
          LET d == decisions[n]
          IN  /\ \A o \in GroupOf(n) \ {Id(d.winner)} :
                    \/ d.winner.score < score_query(o.filepath)
                    \/ /\ d.winner.score = score_query(o.filepath)
                       /\ Before(Id(d.winner), o)
              /\ \A i \in 1..Len(d.losers) : \A j \in 1..Len(d.losers) :
                    (i < j /\ d.losers[i].score = d.losers[j].score)
                       => Before(d.losers[i], d.losers[j])
              /\ \A i \in 1..Len(d.different) : \A j \in 1..Len(d.different) :
                    (i < j /\ d.different[i].occ.score = d.different[j].occ.score)
                       => Before(d.different[i].occ, d.different[j].occ)
    /\ (run = 2 /\ start = prev[1].start /\ Decided) =>
          /\ Verdict(decisions, counts) = Verdict(prev[1].decisions, prev[1].counts)
          /\ files_to_modify = prev[1].files_to_modify

\* a decided name with a winner and a loser of the same score in two files and
\* an occurrence of another score that was discovered before both
C8_Witness ==
    /\ Decided
    /\ \E n \in DOMAIN decisions :
          LET d == decisions[n]
          IN  /\ \E o \in GroupOf(n) :
                    /\ o.filepath # d.winner.filepath
                    /\ score_query(o.filepath) = d.winner.score
              /\ \E o \in GroupOf(n) :
                    /\ Before(o, Id(d.winner))
                    /\ score_query(o.filepath) > d.winner.score

\* C9: every file the apply phase has handled is deleted if none of its
\* entries is left after the scheduled removals, and otherwise holds exactly
\* the entries that are left; no file is ever stored empty.
C9_EmptyFileDeleted ==
    /\ \A k \in 1..Len(ops) :
          LET f == ops[k].filepath
          IN  /\ ops[k].queries = Kept(f)
              /\ IF Kept(f) = <<>>
                 THEN ops[k].op = "remove" /\ f \notin DOMAIN fs
                 ELSE ops[k].op = "save" /\ f \in DOMAIN fs /\ fs[f] = Kept(f)
    /\ \A f \in DOMAIN fs : fs[f] # <<>>
    /\ Applied =>
          /\ Len(ops) = Len(files_to_modify)
          /\ \A f \in DOMAIN start :
                Scheduled(f) # {} => \E k \in 1..Len(ops) : ops[k].filepath = f
          /\ counts.files_deleted = Cardinality({k \in 1..Len(ops) : ops[k].op = "remove"})
          /\ counts.files_modified = Cardinality({k \in 1..Len(ops) : ops[k].op = "save"})

\* a finished mutating run that deleted one file and rewrote another
C9_Witness ==
    /\ Applied
    /\ \E k \in 1..Len(ops) : ops[k].op = "remove"
    /\ \E k \in 1..Len(ops) : ops[k].op = "save"

\* s with its case folded, its whitespace runs collapsed, its ends trimmed and
\* one trailing terminator dropped
Canon(s) ==
    LET folded == Strip(CollapseSpace(Lower(s)))
    IN  IF folded # <<>> /\ folded[Len(folded)] = ";"
        THEN Strip(SubSeq(folded, 1, Len(folded) - 1))
        ELSE folded

\* the two bodies differ only in case, whitespace runs and a trailing terminator
SameUpToFormat(s, t) == Canon(s) = Canon(t) /\ Canon(s) # <<>>

\* C10: when the two bodies of a name differ only in letter case, runs of
\* whitespace and a trailing terminator, their similarity is exactly 1.0, the
\* occurrence of the better-ranked source is the winner, the other one is
\* scheduled, and the finished mutating run has removed it.
C10_FormatVariantsCollapse ==
    \A n \in DOMAIN decisions :
       LET w == decisions[n].winner
       IN  \A o \in GroupOf(n) \ {Id(w)} :
              (/\ Cardinality(GroupOf(n)) = 2
               /\ SameUpToFormat(w.sql, SqlOf(EntryAt(o)))
               /\ w.score < score_query(o.filepath)) =>
                 /\ SimTo(w, o)[1] = SimTo(w, o)[2]
                 /\ o.index \in Scheduled(o.filepath)
                 /\ Applied => (o.filepath \notin DOMAIN fs \/ fs[o.filepath] = Kept(o.filepath))

-----------------------------------------------------------------------------
-----------------------------------------------------------------------------
\* the two entries of one name with the bodies of PidBodies
IsPidCorpus == \E p \in ScorePaths, q \in ScorePaths : start = PidCorpus(p, q)

\* the similarity main() computed between the winner and the other entry
PidSimilarity == decisions["X"].different[1].similarity

NothingScheduled == files_to_modify = <<>> /\ (Applied => fs = start)

\* C12 as stated: for two occurrences of one name with the bodies 'SELECT pid
\* FROM processes' and 'SELECT path FROM file' the similarity is under 0.5 and
\* at the default threshold neither occurrence is scheduled for deletion.
C12_UnderHalfBothKept ==
    (IsPidCorpus /\ Decided) =>
       /\ Len(decisions["X"].different) = 1
       /\ 2 * PidSimilarity[1] < PidSimilarity[2]
       /\ NothingScheduled

\* C12 amended: for these two occurrences the similarity is 30/46, which is
\* at least 0.5 and under the default threshold 0.85, and neither occurrence
\* is scheduled for deletion: both files are as they were after the run.
C12_UnderThresholdBothKept ==
    (IsPidCorpus /\ Decided) =>
       /\ Len(decisions["X"].different) = 1
       /\ decisions["X"].losers = <<>>
       /\ PidSimilarity[1] * 46 = 30 * PidSimilarity[2]
       /\ 2 * PidSimilarity[1] >= PidSimilarity[2]
       /\ ~AtLeast(PidSimilarity, DefaultSimilarity)
       /\ NothingScheduled

C12_Witness ==
    /\ IsPidCorpus
    /\ Applied
    /\ Cardinality(DOMAIN start) = 2

-----------------------------------------------------------------------------
\* C13: the score of every occurrence is source_rank * 100 + category_rank +
\* bit, where source_rank is the rank of the source in SOURCE_PRECEDENCE and,
\* for a source outside the table, larger than every rank of the table,
\* category_rank is the rank of the category in CATEGORY_PRECEDENCE, and bit
\* is 1 for the platform bucket "all" and 0 for any other platform.
C13_ScoreFormula ==
    \A n \in DOMAIN name_to_queries :
       \A i \in 1..Len(name_to_queries[n]) :
          LET occ == name_to_queries[n][i]
              path == occ.filepath
              source == IF Len(path) > 3 THEN path[4] ELSE "unknown"
              cat == IF Len(path) > 4 THEN path[5] ELSE "unknown"
              bit == IF path[1] = "all" THEN 1 ELSE 0
          IN  \E category_rank \in 1..100 :
                 LET rest == occ.score - bit - category_rank
                     source_rank == rest \div 100
                 IN  /\ rest % 100 = 0
                     /\ source_rank >= 1
                     /\ source \in DOMAIN SOURCE_PRECEDENCE =>
                            source_rank = SOURCE_PRECEDENCE[source]
                     /\ source \notin DOMAIN SOURCE_PRECEDENCE =>
                            \A k \in DOMAIN SOURCE_PRECEDENCE :
                               source_rank > SOURCE_PRECEDENCE[k]
                     /\ cat \in DOMAIN CATEGORY_PRECEDENCE =>
                            category_rank = CATEGORY_PRECEDENCE[cat]

C13_Witness ==
    /\ pc = "dedupe"
    /\ "X" \in DOMAIN name_to_queries
    /\ \E i, j \in 1..Len(name_to_queries["X"]) :
          LET a == name_to_queries["X"][i].filepath
              b == name_to_queries["X"][j].filepath
          IN  /\ Len(a) > 4 /\ a[4] \notin DOMAIN SOURCE_PRECEDENCE
              /\ a[1] # "all"
              /\ Len(b) > 4 /\ b[4] \in DOMAIN SOURCE_PRECEDENCE
              /\ b[1] = "all"

-----------------------------------------------------------------------------
(* What the properties of the sorter speak about: the evidence of the      *)
(* record in hand, and what each strategy finds when it is the only one    *)
(* with evidence.                                                          *)

Explicit == Get(PlatformSpec(record), "platform", "")

Purpose == Get(CategorySpec(record), "purpose", "")

Tags == Get(CategorySpec(record), "tags", <<"list", <<>>>>)

PlatformDone == spc \in {"platform", "category", "placed"}

Detected == Bucket(lib_subdir, yaml_platform)

NoPlatform == Bucket("all", <<>>)

ByField == detect_platform([platform |-> Explicit], "", "", "")

ByFileName == detect_platform(<<>>, FileName(record), "", "")

ByPath == detect_platform(<<>>, "", FilePath(record), "")

ByBody == detect_platform(<<>>, "", "", QuerySql(record))

CatByPurpose == detect_category([purpose |-> Purpose], "", "", "")

CatByTags == detect_category([tags |-> Tags], "", "", "")

CatByFileName == detect_category(<<>>, FileName(record), "", "")

CatByPath == detect_category(<<>>, "", FilePath(record), "")

CatByName == detect_category(<<>>, "", "", QueryName(record))

-----------------------------------------------------------------------------
\* C14: the detected platform is what the explicit field alone gives when the
\* field is non-empty, else what the file name alone gives when that is a
\* platform, else the same for the path, else for the body, else ("all",
\* None); an explicit "linux" with a file name containing "-macos" gives the
\* bucket linux.
C14_PlatformOrder ==
    PlatformDone =>
       /\ Detected = IF Truthy(Explicit) THEN ByField
                     ELSE IF ByFileName # NoPlatform THEN ByFileName
                     ELSE IF ByPath # NoPlatform THEN ByPath
                     ELSE IF ByBody # NoPlatform THEN ByBody
                     ELSE NoPlatform
       /\ (/\ Truthy(Explicit)
           /\ Explicit = "linux"
           /\ Contains(FileName(record), "-macos"))
          => lib_subdir = "linux"

C14_Witness ==
    /\ PlatformDone
    /\ Truthy(Explicit)
    /\ Explicit = "linux"
    /\ Contains(FileName(record), "-macos")
    /\ ByFileName = Bucket("macos", <<"darwin">>)
    /\ lib_subdir = "linux"

-----------------------------------------------------------------------------
\* the explicit platform is a string outside the alias table
Unrecognised ==
    /\ Truthy(Explicit)
    /\ str_lower(str_strip(Explicit)) \notin DOMAIN PLATFORM_MAP

\* C15 as stated: every non-empty explicit platform string outside the alias
\* table gives the bucket "all" with the string (up to surrounding
\* whitespace) as display label, so that the label is never missing.
C15_LabelNeverDiscarded ==
    (PlatformDone /\ Unrecognised) =>
       /\ lib_subdir = "all"
       /\ yaml_platform = <<str_strip(Explicit)>>
       /\ yaml_platform[1] # ""

\* C15 amended: an explicit platform string outside the alias table gives the
\* bucket "all"; its display label is the string without its surrounding
\* whitespace, whether it names several platforms or one, unless the string
\* is whitespace only, which leaves no display label.
C15_LabelUnlessBlank ==
    (PlatformDone /\ Unrecognised) =>
       /\ lib_subdir = "all"
       /\ yaml_platform = IF str_strip(Explicit) = "" THEN <<>>
                          ELSE <<str_strip(Explicit)>>

C15_Witness ==
    /\ PlatformDone
    /\ Unrecognised
    /\ Contains(Explicit, ",")
    /\ Detected = Bucket("all", <<Explicit>>)

-----------------------------------------------------------------------------
\* the first three strategies have no result
BodyReached ==
    /\ ~Truthy(Explicit)
    /\ platform_from_filename(FileName(record)) = <<>>
    /\ platform_from_path(FilePath(record)) = <<>>

\* the platforms whose tables the body names more often than the tables of
\* either other platform, and at least once
StrictMax ==
    LET scores == platform_scores(str_lower(QuerySql(record)))
    IN  {p \in DOMAIN scores :
            /\ scores[p] > 0
            /\ \A q \in DOMAIN scores \ {p} : scores[q] < scores[p]}

\* C16: when the body heuristic is reached, a platform with the strict
\* maximum, non-zero score is the bucket (macos labelled darwin); when two
\* platforms tie for the maximum or no table is named, the result is
\* ("all", None).
C16_BodyStrictMaximum ==
    (PlatformDone /\ BodyReached) =>
       /\ \A p \in StrictMax :
             Detected = Bucket(p, <<IF p = "macos" THEN "darwin" ELSE p>>)
       /\ StrictMax = {} => Detected = NoPlatform

C16_Witness ==
    /\ PlatformDone
    /\ BodyReached
    /\ LET scores == platform_scores(str_lower(QuerySql(record)))
       IN  scores["macos"] = 1 /\ scores["linux"] = 1 /\ scores["windows"] = 0
    /\ Detected = NoPlatform

-----------------------------------------------------------------------------
\* C17: the detected category is what the purpose alone gives when the
\* purpose is non-empty, else what the tags alone give when that is not
\* general, else the same for the file name, for the path and for the query
\* name, and general when none of them gives a category.
C17_CategoryOrder ==
    spc = "category" =>
       category = IF Truthy(Purpose) THEN CatByPurpose
                  ELSE IF CatByTags # "general" THEN CatByTags
                  ELSE IF CatByFileName # "general" THEN CatByFileName
                  ELSE IF CatByPath # "general" THEN CatByPath
                  ELSE IF CatByName # "general" THEN CatByName
                  ELSE "general"

C17_Witness ==
    /\ spc = "category"
    /\ ~Truthy(Purpose)
    /\ CatByTags = "compliance"
    /\ CatByFileName = "performance"
    /\ category = "compliance"

-----------------------------------------------------------------------------
\* the order of the vocabularies
VocabularyOrder == <<"detection", "incident-response", "compliance",
                     "inventory", "performance", "vulnerability">>

\* tag holds a keyword of the vocabulary of category c
TagMatches(tag, c) ==
    \E k \in 1..Len(CATEGORY_KEYWORDS) :
       /\ CATEGORY_KEYWORDS[k][1] = c
       /\ \E j \in 1..Len(CATEGORY_KEYWORDS[k][2]) :
             Contains(str_lower(tag), CATEGORY_KEYWORDS[k][2][j])

\* the tags one by one: the items of a list, the words of a string
TagItems == IF Tags[1] = "str" THEN str_words(Tags[2]) ELSE Tags[2]

\* the tags that match some vocabulary
Telling == {i \in 1..Len(TagItems) :
               \E k \in 1..Len(VocabularyOrder) :
                  TagMatches(TagItems[i], VocabularyOrder[k])}

\* C18: without a purpose, the category is the first vocabulary in the order
\* detection, incident-response, compliance, inventory, performance,
\* vulnerability that the first matching tag matches; the tag "lateral
\* movement compliance" gives detection as a list item and as a string.
C18_TagVocabularyPriority ==
    (spc = "category" /\ ~Truthy(Purpose) /\ Telling # {}) =>
       LET tag == TagItems[Least(Telling)]
           first == Least({k \in 1..Len(VocabularyOrder) :
                              TagMatches(tag, VocabularyOrder[k])})
       IN  /\ category = VocabularyOrder[first]
           /\ TagItems \in {<<"lateral movement compliance">>,
                             <<"lateral", "movement", "compliance">>}
                 => category = "detection"

C18_Witness ==
    /\ spc = "category"
    /\ ~Truthy(Purpose)
    /\ Tags = <<"list", <<"lateral movement compliance">>>>
    /\ TagMatches(Tags[2][1], "compliance")
    /\ category = "detection"

-----------------------------------------------------------------------------
\* C19 as stated: when the file-name strategy is reached (no purpose, no tag
\* decided), a file name that contains both "registry" and "monitor" gives
\* the category detection.
C19_RegistryMonitorDetection ==
    (/\ spc = "category"
     /\ ~Truthy(Purpose)
     /\ Telling = {}
     /\ Contains(str_lower(FileName(record)), "registry")
     /\ Contains(str_lower(FileName(record)), "monitor"))
    => category = "detection"

-----------------------------------------------------------------------------
ClosedCategories == {"general", "compliance", "detection", "incident-response",
                     "informational", "endpoints", "performance", "policy",
                     "inventory", "vulnerability", "servers"}

\* the purpose in lower case, trimmed, with hyphens for spaces and underscores
Hyphenated ==
    str_replace(str_replace(str_lower(str_strip(Purpose)), " ", "-"), "_", "-")

\* C20 as stated: the category a record is placed under is one of general,
\* compliance, detection, incident-response, informational, endpoints,
\* performance, policy, inventory, vulnerability, servers.
C20_ClosedCategorySet ==
    spc = "placed" => category \in ClosedCategories

\* C20 amended: the category a record is placed under is one of the closed
\* set, or the hyphenated lower-case form of its non-empty purpose, or, for
\* a SQL file in a subdirectory, the relative path of that directory as it
\* is spelled; a record without any evidence is placed under general.
C20_ClosedOrCustom ==
    spc = "placed" =>
       /\ \/ category \in ClosedCategories
          \/ /\ record.kind = "structured"
             /\ Truthy(Purpose)
             /\ category = Hyphenated
          \/ /\ record.kind = "sql"
             /\ record.rel_root # "."
             /\ category = record.rel_root
       /\ (/\ ~Truthy(Purpose)
           /\ CatByTags = "general"
           /\ CatByFileName = "general"
           /\ CatByPath = "general"
           /\ CatByName = "general")
          => category = "general"

C20_Witness ==
    /\ spc = "placed"
    /\ record.kind = "structured"
    /\ Truthy(Purpose)
    /\ category \notin ClosedCategories
    /\ category = "threat-hunting"

-----------------------------------------------------------------------------
(* The report of the deduplicator.                                         *)

\* the lines of output that report occurrence o of name n as kind
ReportedAs(kind, n, o, sim) ==
    \E k \in 1..Len(output) :
       /\ output[k].line = kind
       /\ output[k].name = n
       /\ output[k].filepath = o.filepath
       /\ output[k].index = o.index
       /\ output[k].similarity = sim

\* C24: once the name groups are decided, in the mutating as in the preview
\* mode, output names the winner of every group, every loser and every
\* kept-both occurrence with its similarity, and the summary line gives the
\* kept, removed and different counts.
C24_EveryGroupReported ==
    Decided =>
       /\ \A n \in DOMAIN decisions :
             LET d == decisions[n]
             IN  /\ ReportedAs("KEEP", n, d.winner, <<1, 1>>)
                 /\ \A i \in 1..Len(d.losers) :
                       ReportedAs("DELETE", n, d.losers[i],
                                  sql_similarity(d.winner.sql, d.losers[i].sql))
                 /\ \A i \in 1..Len(d.different) :
                       ReportedAs("DIFFERENT SQL", n, d.different[i].occ,
                                  d.different[i].similarity)
       /\ \E k \in 1..Len(output) :
             /\ output[k].line = "Summary"
             /\ output[k].kept = counts.kept
             /\ output[k].removed = counts.removed
             /\ output[k].different = counts.different

-----------------------------------------------------------------------------
(* The survivors of one name.                                              *)

\* the entries named n that the files hold now, as <<file, position>>
Survivors(n) == UNION {{<<f, i>> : i \in NamedIn(f, n)} : f \in DOMAIN fs}

BodyAt(s) == SqlOf(fs[s[1]][s[2]])

\* C27 as stated: after a finished mutating run any two surviving records of
\* one name have a similarity below the threshold.
C27_SurvivorsPairwiseDifferent ==
    Applied =>
       \A n \in Names :
          \A s \in Survivors(n) : \A t \in Survivors(n) :
             s # t => ~AtLeast(sql_similarity(BodyAt(s), BodyAt(t)), args.similarity)

\* C27 amended: after a finished mutating run, of the surviving records of a
\* decided name exactly one reaches the threshold against the winner's body,
\* the winner itself (none when the winner's body normalizes to nothing);
\* every other survivor is below the threshold against the winner.
C27_SurvivorsDifferFromWinner ==
    Applied =>
       \A n \in DOMAIN decisions :
          LET w == decisions[n].winner
              near == {s \in Survivors(n) :
                          AtLeast(sql_similarity(w.sql, BodyAt(s)), args.similarity)}
          IN  /\ w.filepath \in DOMAIN fs
              /\ IF normalize_sql(w.sql) = <<>> THEN near = {}
                 ELSE /\ Cardinality(near) = 1
                      /\ \A s \in near : s[1] = w.filepath /\ fs[s[1]][s[2]] = w.query

\* a finished mutating run that left two survivors of one name, neither of
\* them the winner, that are similar to each other
C27_Witness ==
    /\ Applied
    /\ \E n \in DOMAIN decisions :
          /\ Len(decisions[n].different) >= 2
          /\ \E s \in Survivors(n) : \E t \in Survivors(n) :
                /\ s # t
                /\ ~AtLeast(sql_similarity(decisions[n].winner.sql, BodyAt(s)),
                            args.similarity)
                /\ ~AtLeast(sql_similarity(decisions[n].winner.sql, BodyAt(t)),
                            args.similarity)
                /\ AtLeast(sql_similarity(BodyAt(s), BodyAt(t)), args.similarity)

-----------------------------------------------------------------------------
\* the rank of the source of a file: the first factor of its score
SourceRank(filepath) ==
    LET source == IF Len(filepath) > 3 THEN filepath[4] ELSE "unknown"
    IN  IF source \in DOMAIN SOURCE_PRECEDENCE THEN SOURCE_PRECEDENCE[source]
        ELSE UnknownRank

\* C28: of two collected occurrences of one name, the one from the source of
\* the better (smaller) rank has the strictly lower score, whatever the
\* categories and the platform buckets of the two files.
C28_SourceRankDominates ==
    \A n \in DOMAIN name_to_queries :
       \A i \in 1..Len(name_to_queries[n]) :
          \A j \in 1..Len(name_to_queries[n]) :
             LET a == name_to_queries[n][i]
                 b == name_to_queries[n][j]
             IN  SourceRank(a.filepath) < SourceRank(b.filepath) => a.score < b.score

-----------------------------------------------------------------------------
\* no whitespace at either end, no two whitespace characters in a row and
\* no whitespace but the space, no terminator at the end
IsNormalForm(s) ==
    /\ s # <<>> => ~IsSpace(s[1]) /\ ~IsSpace(s[Len(s)]) /\ s[Len(s)] # ";"
    /\ \A i \in 1..Len(s) : IsSpace(s[i]) => s[i] = " "
    /\ \A i \in 1..(Len(s) - 1) : ~(IsSpace(s[i]) /\ IsSpace(s[i + 1]))

\* C29: normalize_sql is idempotent on the body of every collected
\* occurrence, and the normal form of the body has no whitespace at its ends,
\* no run of whitespace and no trailing terminator.
C29_NormalizeIdempotent ==
    \A n \in DOMAIN name_to_queries :
       \A i \in 1..Len(name_to_queries[n]) :
          LET norm == normalize_sql(name_to_queries[n][i].sql)
          IN  normalize_sql(norm) = norm /\ IsNormalForm(norm)

-----------------------------------------------------------------------------
(* The frame of the apply phase.                                           *)

\* the indices in file f of the losers of all decided names
LoserIndices(f) ==
    UNION {{decisions[n].losers[k].index :
               k \in {j \in 1..Len(decisions[n].losers) :
                         decisions[n].losers[j].filepath = f}} :
           n \in DOMAIN decisions}

\* the number of entries the files of S hold in files
RECURSIVE EntryCount(_, _)
EntryCount(files, S) ==
    IF S = {} THEN 0
    ELSE LET f == CHOOSE x \in S : TRUE
         IN  (IF f \in DOMAIN files THEN Len(files[f]) ELSE 0)
             + EntryCount(files, S \ {f})

\* C30: after a finished mutating run the scheduled indices are exactly the
\* losers' indices; a file with no scheduled index was neither written nor
\* deleted and holds what it held; every other file holds its entries that
\* were not scheduled, in their order, or is gone when none is left; no file
\* appeared; and the number of entries that went away is the removed count,
\* which the last line of the output reports.
C30_ApplyRemovesExactlyLosers ==
    Applied =>
       /\ DOMAIN fs \subseteq DOMAIN start
       /\ \A f \in DOMAIN start :
             /\ Scheduled(f) = LoserIndices(f)
             /\ IF Scheduled(f) = {}
                THEN /\ f \in DOMAIN fs
                     /\ fs[f] = start[f]
                     /\ \A k \in 1..Len(ops) : ops[k].filepath # f
                ELSE IF Kept(f) = <<>> THEN f \notin DOMAIN fs
                ELSE f \in DOMAIN fs /\ fs[f] = Kept(f)
       /\ EntryCount(start, DOMAIN start) - EntryCount(fs, DOMAIN start)
             = counts.removed
       /\ output[Len(output)].line = "Total"
       /\ output[Len(output)].removed = counts.removed

\* a finished mutating run that removed three losers from a file and left in
\* it an entry without a name and a kept-both entry, and that did not touch
\* the winners' file
C30_Witness ==
    /\ Applied
    /\ counts.removed = 3
    /\ \E f \in DOMAIN fs :
          /\ Cardinality(Scheduled(f)) = 3
          /\ \E i \in 1..Len(fs[f]) : "name" \notin DOMAIN fs[f][i]
          /\ \E n \in DOMAIN decisions :
                \E k \in 1..Len(decisions[n].different) :
                   decisions[n].different[k].occ.filepath = f
    /\ \E f \in DOMAIN fs :
          /\ Scheduled(f) = {}
          /\ \E n \in DOMAIN decisions : decisions[n].winner.filepath = f

-----------------------------------------------------------------------------
(* The issue fixers' records, read off the files a run started with.       *)

\* the files of a corpus that hold a list
ListFiles(files) == {f \in DOMAIN files : files[f][1] = "list"}

\* the records of the list-shaped files, as (file, index in the file)
RecordsIn(files) ==
    UNION {{<<f, i>> : i \in {k \in 1..Len(files[f][2]) :
                                 files[f][2][k][1] = "dict"}} :
           f \in ListFiles(files)}

\* the record at an occurrence
RecordAt(files, o) == files[o[1]][2][o[2]][2]

\* the record has a body: a string with a character that is not whitespace
HasBody(query) ==
    /\ "query" \in DOMAIN query
    /\ query.query[1] = "str"
    /\ Truthy(str_strip(query.query[2]))

\* every dollar sign of the text belongs to a '$$' or starts '$FLEET_'
OnlyEscapedDollars(sql) ==
    \A i \in Positions(sql, "$") :
       \/ i > 1 /\ CharAt(sql, i - 1) = "$"
       \/ CharAt(sql, i + 1) = "$"
       \/ StartsWithAt(sql, i + 1, "FLEET_")

C26_EscapedAndEnvKept ==
    fx_pc = "done" /\ fx_args.program = "fix_query_issues.py" /\ ~fx_args.dry_run =>
        \A o \in RecordsIn(fx_start) :
           LET query == RecordAt(fx_start, o)
           IN  HasBody(query) /\ OnlyEscapedDollars(query.query[2]) =>
                  /\ o[1] \in DOMAIN fx_fs
                  /\ \E k \in 1..Len(fx_fs[o[1]][2]) :
                        fx_fs[o[1]][2][k] = <<"dict", FixInterval(query)>>

-----------------------------------------------------------------------------
(* The parsers' input, read off the file a call started with.              *)

\* the lines of the file that do not start with '--'
BodyLines == {k \in 1..Len(rd_input) : ~startswith(rd_input[k], "--")}

\* the locals of parse_sql_file after the lines from i on
RECURSIVE ParseFrom(_, _, _)
ParseFrom(st, lines, i) ==
    IF i > Len(lines) THEN st ELSE ParseFrom(SqlLine(st, lines[i]), lines, i + 1)

\* the metadata fields among the locals
MetadataOf(st) ==
    <<st.description, st.platform, st.interval, st.tags, st.references,
      st.false_positives, st.desc_lines>>

\* C25: once parse_sql_file has read the first line that does not start
\* with '--', the metadata fields are those that the lines up to that one
\* gave, whatever the later lines are, and every line from that one on is
\* in query_lines, without its line end, in the order of the file; the
\* returned platform, interval, tags, references and false positives are
\* those fields
C25_MetadataNeverResumes ==
    rd_pc \in {"sql", "done"} /\ BodyLines # {} /\ rd_i >= Least(BodyLines) =>
        LET first == Least(BodyLines)
            then == ParseFrom(SqlLocals, SubSeq(rd_input, 1, first), 1)
        IN  /\ ~rd_locals.in_metadata
            /\ MetadataOf(rd_locals) = MetadataOf(then)
            /\ rd_locals.query_lines
                  = [k \in 1..(rd_i - first + 1) |->
                        rstrip_char(rd_input[first + k - 1], "\n")]
            /\ rd_pc = "done" =>
                  /\ rd_result[1].description = then.description
                  /\ rd_result[1].platform = then.platform
                  /\ rd_result[1].interval = then.interval
                  /\ rd_result[1].tags = then.tags
                  /\ rd_result[1].references = then.references
                  /\ rd_result[1].false_positives = then.false_positives

\* a file with a platform directive after its first query line has been
\* parsed, and the platform is still unset
C25_Witness ==
    /\ rd_pc = "done"
    /\ BodyLines # {}
    /\ \E k \in (Least(BodyLines) + 1)..Len(rd_input) :
          startswith(str_lower(rd_input[k]), "-- platform:")
    /\ rd_result[1].platform = <<>>
    /\ Contains(rd_result[1].query, "-- Platform: darwin")

\* the document is a mapping whose spec is a mapping with a non-empty name
\* and a non-empty query, and its text is neither empty nor a comment
WellFormed(doc) ==
    /\ Truthy(str_strip(doc.raw))
    /\ ~startswith(str_strip(doc.raw), "#")
    /\ doc.load[1] = "dict"
    /\ "spec" \in DOMAIN doc.load[2]
    /\ doc.load[2].spec[1] = "dict"
    /\ "name" \in DOMAIN doc.load[2].spec[2]
    /\ Filled(doc.load[2].spec[2].name)
    /\ "query" \in DOMAIN doc.load[2].spec[2]
    /\ Filled(doc.load[2].spec[2].query)

\* C22: parse_yaml_file never raises; the documents it has yielded are the
\* well-formed ones among those it has read, each with its kind, 'query'
\* when the document names none; so every other document is skipped and
\* the documents after it are still read
C22_MalformedSkipped ==
    rd_pc \in {"yaml", "done", "raised"} =>
        /\ rd_pc # "raised"
        /\ [k \in 1..Len(rd_yielded) |-> rd_yielded[k].at]
              = SelectSeq([k \in 1..rd_i |-> k], LAMBDA k : WellFormed(rd_input[k]))
        /\ \A k \in 1..Len(rd_yielded) :
              rd_yielded[k].kind
                 = Get(rd_input[rd_yielded[k].at].load[2], "kind", <<"str", "query">>)
        /\ rd_pc = "done" => rd_i = Len(rd_input)

-----------------------------------------------------------------------------
\* C21: the detectors never raise, whatever the types of a record's
\* platform, purpose and tags are: every record that has been placed has a
\* platform bucket and a category
C21_NeverRaises ==
    /\ spc # "raised"
    /\ spc = "placed" =>
          /\ lib_subdir \in {"all", "macos", "linux", "windows", "chrome"}
          /\ Truthy(category)

====
